---- MODULE Spec2Model ----
(***************************************************************************)
(* TrustLens multi-agent code reviewer: the orchestration and decision     *)
(* engine.  The model covers Orchestrator.analyze_repository with its      *)
(* collaborators (S3Reader, RoutingPolicy, the specialist agents,          *)
(* ConflictResolver, DecisionAgent) and the two ReliabilityEngine classes  *)
(* of the repository: the safety-gate engine of backend/orchestrator and   *)
(* the history-keeping engine of OneDrive/.../orchestrator.                *)
(*                                                                         *)
(* Confidences are exact rationals [num, den] (den > 0); the source uses   *)
(* binary floating point, whose rounding is outside this model.            *)
(***************************************************************************)
EXTENDS Integers, Sequences, FiniteSets, TLC

(***************************************************************************)
(* Bounds of the model.                                                    *)
(***************************************************************************)
MaxOutputs == 2
MaxConflicts == 2
MaxRouted == 1

(***************************************************************************)
(* Rational arithmetic on [num, den] records.                              *)
(***************************************************************************)
Rat(n, d) == [num |-> n, den |-> d]
RZero == Rat(0, 1)
RAdd(a, b) == Rat(a.num * b.den + b.num * a.den, a.den * b.den)
RMul(a, b) == Rat(a.num * b.num, a.den * b.den)
RDiv(a, b) == Rat(a.num * b.den, a.den * b.num)
RLess(a, b) == a.num * b.den < b.num * a.den
RLeq(a, b) == a.num * b.den <= b.num * a.den
REq(a, b) == a.num * b.den = b.num * a.den
Pct(c) == Rat(c, 100)

\* a fraction in lowest terms
RECURSIVE GCD(_, _)
GCD(a, b) == IF b = 0 THEN a ELSE GCD(b, a % b)
RNorm(a) ==
    LET g == GCD(a.num, a.den)
    IN  IF g = 0 THEN a ELSE Rat(a.num \div g, a.den \div g)

(***************************************************************************)
(* schemas/agent_output.py                                                 *)
(***************************************************************************)
RiskLevel == {"none", "low", "medium", "high", "critical"}
severity == [r \in RiskLevel |->
               CASE r = "critical" -> 4
                 [] r = "high" -> 3
                 [] r = "medium" -> 2
                 [] r = "low" -> 1
                 [] OTHER -> 0]
AgentType == {"feature_extraction", "security_analysis", "logic_analysis",
              "code_quality", "decision"}
Specialists == {"security_analysis", "logic_analysis", "code_quality"}

\* AgentOutput(agent_type, confidence, findings, risk_level, metadata, success,
\* error_message); confidence is a percentage, metadata is kept only where an
\* operation reads it.
AgentOutput(t, c, f, r, s, e) ==
    [agent_type |-> t, confidence |-> c, findings |-> f, risk_level |-> r,
     success |-> s, error_message |-> e]

RECURSIVE SumSeq(_)
SumSeq(s) == IF s = <<>> THEN RZero ELSE RAdd(Head(s), SumSeq(Tail(s)))

\* max(risk_levels) under RiskLevel.__gt__, RiskLevel.NONE for an empty list
MaxRisk(rs) ==
    IF rs = {} THEN "none"
    ELSE CHOOSE r \in rs : \A q \in rs : severity[q] <= severity[r]

(***************************************************************************)
(* backend/orchestrator/reliability.py: the safety-gate ReliabilityEngine  *)
(***************************************************************************)
\* self.agent_reliability as set by __init__
agent_reliability == [a \in AgentType \ {"decision"} |-> Rat(1, 1)]

reliability_of(a) ==
    IF a \in DOMAIN agent_reliability THEN agent_reliability[a] ELSE Rat(1, 1)

\* Variant: a failed output counts as a zero instead of being left out.
aggregate_confidence_zero_weighted(outputs) ==
    LET weighted == [i \in 1..Len(outputs) |->
                        IF outputs[i].success
                        THEN RMul(Pct(outputs[i].confidence),
                                  reliability_of(outputs[i].agent_type))
                        ELSE RZero]
        rels == [i \in 1..Len(outputs) |-> reliability_of(outputs[i].agent_type)]
    IN  IF \A i \in 1..Len(outputs) : ~outputs[i].success THEN RZero
        ELSE RDiv(SumSeq(weighted), SumSeq(rels))

aggregate_confidence(outputs) ==
    LET successful_outputs == SelectSeq(outputs, LAMBDA o : o.success)
        weighted == [i \in 1..Len(successful_outputs) |->
                        RMul(Pct(successful_outputs[i].confidence),
                             reliability_of(successful_outputs[i].agent_type))]
        rels == [i \in 1..Len(successful_outputs) |->
                        reliability_of(successful_outputs[i].agent_type)]
        sum_weighted_confidence == SumSeq(weighted)
        sum_reliability == SumSeq(rels)
    IN  IF successful_outputs = <<>> THEN RZero
        ELSE IF sum_reliability.num = 0 THEN RZero
        ELSE RDiv(sum_weighted_confidence, sum_reliability)

get_failures(outputs) ==
    [failed_agents |-> [i \in 1..Len(SelectSeq(outputs, LAMBDA o : ~o.success)) |->
                           SelectSeq(outputs, LAMBDA o : ~o.success)[i].agent_type],
     security_failed |-> \E i \in 1..Len(outputs) :
                           /\ outputs[i].agent_type = "security_analysis"
                           /\ ~outputs[i].success]

min_confidence_threshold == Rat(7, 10)
critical_confidence_threshold == Rat(80, 100)

\* The reason strings of should_defer, by the rule that produced them.
REASON_NONE == [rule |-> 0, text |-> ""]
REASON_NO_SUCCESS == [rule |-> 1, text |-> "No successful agent outputs received"]
REASON_THRESHOLD == [rule |-> 2, text |-> "Overall confidence below threshold"]
REASON_CONFLICTS == [rule |-> 3, text |-> "unresolved conflicts between agents"]
REASON_SECURITY == [rule |-> 4, text |-> "Security analysis agent failed to complete"]
REASON_CRITICAL == [rule |-> 5, text |-> "Critical risk detected but overall confidence is below safety threshold (0.80)"]

Gate(d, r) == [defer |-> d, reason |-> r]

\* Variant: rule 4 (security agent failed) is missing.
should_defer_no_security_rule(overall_confidence, conflicts, failures, max_risk) ==
    IF RLeq(overall_confidence, RZero) THEN Gate(TRUE, REASON_NO_SUCCESS)
    ELSE IF RLess(overall_confidence, min_confidence_threshold)
         THEN Gate(TRUE, REASON_THRESHOLD)
    ELSE IF conflicts # <<>> THEN Gate(TRUE, REASON_CONFLICTS)
    ELSE IF max_risk = "critical"
            /\ RLess(overall_confidence, critical_confidence_threshold)
         THEN Gate(TRUE, REASON_CRITICAL)
    ELSE Gate(FALSE, REASON_NONE)

\* Variant: rule 3 (unresolved conflicts) is missing.
should_defer_no_conflict_rule(overall_confidence, conflicts, failures, max_risk) ==
    IF RLeq(overall_confidence, RZero) THEN Gate(TRUE, REASON_NO_SUCCESS)
    ELSE IF RLess(overall_confidence, min_confidence_threshold)
         THEN Gate(TRUE, REASON_THRESHOLD)
    ELSE IF failures.security_failed THEN Gate(TRUE, REASON_SECURITY)
    ELSE IF max_risk = "critical"
            /\ RLess(overall_confidence, critical_confidence_threshold)
         THEN Gate(TRUE, REASON_CRITICAL)
    ELSE Gate(FALSE, REASON_NONE)

\* Variant: the conflict rule is evaluated before the threshold rule.
should_defer_conflicts_first(overall_confidence, conflicts, failures, max_risk) ==
    IF RLeq(overall_confidence, RZero) THEN Gate(TRUE, REASON_NO_SUCCESS)
    ELSE IF conflicts # <<>> THEN Gate(TRUE, REASON_CONFLICTS)
    ELSE IF RLess(overall_confidence, min_confidence_threshold)
         THEN Gate(TRUE, REASON_THRESHOLD)
    ELSE IF failures.security_failed THEN Gate(TRUE, REASON_SECURITY)
    ELSE IF max_risk = "critical"
            /\ RLess(overall_confidence, critical_confidence_threshold)
         THEN Gate(TRUE, REASON_CRITICAL)
    ELSE Gate(FALSE, REASON_NONE)

\* Variant: rule 5 compares with <= 0.80 instead of < 0.80.
should_defer_inclusive_critical(overall_confidence, conflicts, failures, max_risk) ==
    IF RLeq(overall_confidence, RZero) THEN Gate(TRUE, REASON_NO_SUCCESS)
    ELSE IF RLess(overall_confidence, min_confidence_threshold)
         THEN Gate(TRUE, REASON_THRESHOLD)
    ELSE IF conflicts # <<>> THEN Gate(TRUE, REASON_CONFLICTS)
    ELSE IF failures.security_failed THEN Gate(TRUE, REASON_SECURITY)
    ELSE IF max_risk = "critical"
            /\ RLeq(overall_confidence, critical_confidence_threshold)
         THEN Gate(TRUE, REASON_CRITICAL)
    ELSE Gate(FALSE, REASON_NONE)

should_defer(overall_confidence, conflicts, failures, max_risk) ==
    IF RLeq(overall_confidence, RZero) THEN Gate(TRUE, REASON_NO_SUCCESS)
    ELSE IF RLess(overall_confidence, min_confidence_threshold)
         THEN Gate(TRUE, REASON_THRESHOLD)
    ELSE IF conflicts # <<>> THEN Gate(TRUE, REASON_CONFLICTS)
    ELSE IF failures.security_failed THEN Gate(TRUE, REASON_SECURITY)
    ELSE IF max_risk = "critical"
            /\ RLess(overall_confidence, critical_confidence_threshold)
         THEN Gate(TRUE, REASON_CRITICAL)
    ELSE Gate(FALSE, REASON_NONE)

(***************************************************************************)
(* OneDrive/.../orchestrator/reliability.py: the history-keeping           *)
(* ReliabilityEngine (agent_history, two-rule should_defer)                *)
(***************************************************************************)
\* statistics.mean(history) of a non-empty history of percentages
mean(history) ==
    RNorm(RDiv(SumSeq([i \in 1..Len(history) |-> Pct(history[i])]),
               Rat(Len(history), 1)))

get_agent_reliability(history, agent_name) ==
    IF agent_name \notin DOMAIN history THEN Rat(1, 1)
    ELSE IF history[agent_name] = <<>> THEN Rat(1, 1)
    ELSE mean(history[agent_name])

history_aggregate_confidence(history, outputs) ==
    LET successful_outputs == SelectSeq(outputs, LAMBDA o : o.success)
        weighted_confidences ==
            [i \in 1..Len(successful_outputs) |->
                RMul(Pct(successful_outputs[i].confidence),
                     get_agent_reliability(history, successful_outputs[i].agent_type))]
    IN  IF outputs = <<>> THEN RZero
        ELSE IF successful_outputs = <<>> THEN RZero
        ELSE RDiv(SumSeq(weighted_confidences), Rat(Len(weighted_confidences), 1))

\* Variant: unresolved conflicts do not defer.
history_should_defer_no_conflict_rule(overall_confidence, conflicts) ==
    IF RLess(overall_confidence, min_confidence_threshold)
    THEN Gate(TRUE, REASON_THRESHOLD)
    ELSE Gate(FALSE, REASON_NONE)

history_should_defer(overall_confidence, conflicts) ==
    IF RLess(overall_confidence, min_confidence_threshold)
    THEN Gate(TRUE, REASON_THRESHOLD)
    ELSE IF conflicts # <<>> THEN Gate(TRUE, REASON_CONFLICTS)
    ELSE Gate(FALSE, REASON_NONE)

(***************************************************************************)
(* duhacks/.../orchestrator/conflict_resolver.py                           *)
(***************************************************************************)
RECURSIVE Flatten(_)
Flatten(ss) == IF ss = <<>> THEN <<>> ELSE Head(ss) \o Flatten(Tail(ss))

Abs(x) == IF x < 0 THEN -x ELSE x

ConflictInfo(a, d, f) ==
    [agents_involved |-> a, disagreement_level |-> d, conflicting_findings |-> f]

\* A finding description is the set of (lower-cased) words of its text;
\* `kw in desc` is Python's substring test.
Words == {"safe", "vulnerable", "correct", "incorrect", "valid", "invalid", "issue"}
IsSubstring(kw, w) ==
    \/ kw = w
    \/ kw = "valid" /\ w = "invalid"
    \/ kw = "correct" /\ w = "incorrect"
Contains(desc, kw) == \E w \in desc : IsSubstring(kw, w)

contradictory_pairs == <<<<"safe", "vulnerable">>, <<"correct", "incorrect">>,
                         <<"valid", "invalid">>>>

NoContradiction == [level |-> RZero, details |-> <<>>]

check_contradiction(findings1, findings2) ==
    LET hit(i, j) ==
            \E k \in 1..Len(contradictory_pairs) :
                LET pair == contradictory_pairs[k]
                    desc1 == findings1[i].description
                    desc2 == findings2[j].description
                IN  \/ Contains(desc1, pair[1]) /\ Contains(desc2, pair[2])
                    \/ Contains(desc1, pair[2]) /\ Contains(desc2, pair[1])
        hits == {p \in (1..Len(findings1)) \X (1..Len(findings2)) : hit(p[1], p[2])}
        first == CHOOSE p \in hits :
                    \A q \in hits : p[1] < q[1] \/ (p[1] = q[1] /\ p[2] <= q[2])
    IN  IF hits = {} THEN NoContradiction
        ELSE [level |-> Rat(8, 10),
              details |-> <<findings1[first[1]], findings2[first[2]]>>]

\* as _detect_risk_disagreements, but any difference of ranks is a conflict
detect_risk_disagreements_any_difference(outputs) ==
    LET security_outputs ==
            SelectSeq(outputs, LAMBDA o : o.agent_type = "security_analysis")
        logic_outputs ==
            SelectSeq(outputs, LAMBDA o : o.agent_type = "logic_analysis")
        one(sec_out, log_out) ==
            LET sec_risk == severity[sec_out.risk_level]
                log_risk == severity[log_out.risk_level]
            IN  IF Abs(sec_risk - log_risk) >= 1
                THEN <<ConflictInfo(<<"security_analysis", "logic_analysis">>,
                                    Rat(Abs(sec_risk - log_risk), 4),
                                    <<[agent |-> "security_analysis",
                                       risk_level |-> sec_out.risk_level,
                                       confidence |-> sec_out.confidence],
                                      [agent |-> "logic_analysis",
                                       risk_level |-> log_out.risk_level,
                                       confidence |-> log_out.confidence]>>)>>
                ELSE <<>>
    IN  Flatten([i \in 1..Len(security_outputs) |->
            Flatten([j \in 1..Len(logic_outputs) |->
                one(security_outputs[i], logic_outputs[j])])])

detect_risk_disagreements(outputs) ==
    LET security_outputs ==
            SelectSeq(outputs, LAMBDA o : o.agent_type = "security_analysis")
        logic_outputs ==
            SelectSeq(outputs, LAMBDA o : o.agent_type = "logic_analysis")
        one(sec_out, log_out) ==
            LET sec_risk == severity[sec_out.risk_level]
                log_risk == severity[log_out.risk_level]
            IN  IF Abs(sec_risk - log_risk) >= 2
                THEN <<ConflictInfo(<<"security_analysis", "logic_analysis">>,
                                    Rat(Abs(sec_risk - log_risk), 4),
                                    <<[agent |-> "security_analysis",
                                       risk_level |-> sec_out.risk_level,
                                       confidence |-> sec_out.confidence],
                                      [agent |-> "logic_analysis",
                                       risk_level |-> log_out.risk_level,
                                       confidence |-> log_out.confidence]>>)>>
                ELSE <<>>
    IN  Flatten([i \in 1..Len(security_outputs) |->
            Flatten([j \in 1..Len(logic_outputs) |->
                one(security_outputs[i], logic_outputs[j])])])

detect_finding_contradictions(outputs) ==
    LET one(output1, output2) ==
            LET contradiction == check_contradiction(output1.findings, output2.findings)
            IN  IF output1.agent_type # output2.agent_type
                   /\ contradiction # NoContradiction
                THEN <<ConflictInfo(<<output1.agent_type, output2.agent_type>>,
                                    contradiction.level, contradiction.details)>>
                ELSE <<>>
    IN  Flatten([i \in 1..Len(outputs) |->
            Flatten([j \in 1..(Len(outputs) - i) |->
                one(outputs[i], outputs[i + j])])])

\* as detect_conflicts, but a pair of agents is reported once
detect_conflicts_one_per_pair(outputs) ==
    LET risk_conflicts == detect_risk_disagreements(outputs)
        NotReported(c) ==
            \A k \in 1..Len(risk_conflicts) :
                risk_conflicts[k].agents_involved # c.agents_involved
    IN  risk_conflicts \o SelectSeq(detect_finding_contradictions(outputs), NotReported)

detect_conflicts(outputs) ==
    detect_risk_disagreements(outputs) \o detect_finding_contradictions(outputs)

(***************************************************************************)
(* The specialist agents (backend/agents) and the decision agent           *)
(* (duhacks/.../agents/decision_agent.py)                                  *)
(***************************************************************************)
Finding(d, sev, iss) == [description |-> d, severity |-> sev, issue |-> iss]

\* SecurityAnalysisAgent._determine_risk_level
determine_risk_level(findings) ==
    LET severities == {findings[i].severity : i \in 1..Len(findings)}
    IN  IF findings = <<>> THEN "none"
        ELSE IF "critical" \in severities THEN "critical"
        ELSE IF "high" \in severities THEN "high"
        ELSE IF "medium" \in severities THEN "medium"
        ELSE "low"

\* LogicAnalysisAgent._determine_risk_from_logic: the first finding whose
\* issue names a listed problem decides.
critical_issues == {"infinite_loop", "logic_contradiction"}
high_issues == {"unreachable_code", "off_by_one"}
determine_risk_from_logic(findings) ==
    LET listed == {i \in 1..Len(findings) :
                      findings[i].issue \in critical_issues \cup high_issues}
        first == CHOOSE i \in listed : \A j \in listed : i <= j
    IN  IF findings = <<>> THEN "none"
        ELSE IF listed = {} THEN "low"
        ELSE IF findings[first].issue \in critical_issues THEN "high"
        ELSE "medium"

\* The failure output every agent builds in its `except Exception` branch.
failure_output(agent, msg) == AgentOutput(agent, 0, <<>>, "none", FALSE, msg)

\* SecurityAnalysisAgent.analyze: snippets is the number of routed snippets,
\* llm the findings and the mean confidence the LLM collaborator gave for
\* them, err whether the body raised (and then the message).
EMPTY_SECURITY_CONFIDENCE == 50
security_analyze(snippets, llm, err) ==
    IF err.raised THEN failure_output("security_analysis", err.msg)
    ELSE LET findings == IF snippets > 0 THEN llm.findings ELSE <<>>
             avg_confidence == IF snippets > 0 THEN llm.confidence
                               ELSE EMPTY_SECURITY_CONFIDENCE
         IN  AgentOutput("security_analysis", avg_confidence, findings,
                         determine_risk_level(findings), TRUE, "")

EMPTY_LOGIC_CONFIDENCE == 60
logic_analyze(snippets, llm, err) ==
    IF err.raised THEN failure_output("logic_analysis", err.msg)
    ELSE LET findings == IF snippets > 0 THEN llm.findings ELSE <<>>
             avg_confidence == IF snippets > 0 THEN llm.confidence
                               ELSE EMPTY_LOGIC_CONFIDENCE
         IN  AgentOutput("logic_analysis", avg_confidence, findings,
                         determine_risk_from_logic(findings), TRUE, "")

\* CodeQualityAgent.analyze: fixed confidence 0.9 and risk LOW; its findings
\* are metric summaries (never empty), none of which uses an antonym word.
QUALITY_CONFIDENCE == 90
quality_findings == <<Finding({"issue"}, "info", "quality_summary")>>
quality_analyze(err) ==
    IF err.raised THEN failure_output("code_quality", err.msg)
    ELSE AgentOutput("code_quality", QUALITY_CONFIDENCE, quality_findings,
                     "low", TRUE, "")

\* FeatureExtractionAgent.analyze
feature_analyze(err) ==
    IF err.raised THEN failure_output("feature_extraction", err.msg)
    ELSE AgentOutput("feature_extraction", 100, <<>>, "none", TRUE, "")

RSub(a, b) == Rat(a.num * b.den - b.num * a.den, a.den * b.den)
RMin(a, b) == IF RLess(b, a) THEN b ELSE a
RMax(a, b) == IF RLess(a, b) THEN b ELSE a

\* DecisionAgent.min_confidence_threshold (config default)
decision_min_confidence == Rat(7, 10)

\* DecisionAgent._determine_recommendation
determine_recommendation(risk_levels, confidence, conflicts) ==
    IF RLess(confidence, decision_min_confidence)
    THEN [action |-> "defer", defer |-> TRUE]
    ELSE IF conflicts # <<>> THEN [action |-> "defer", defer |-> TRUE]
    ELSE IF "critical" \in risk_levels
         THEN [action |-> "manual_review_required", defer |-> FALSE]
    ELSE IF "high" \in risk_levels
         THEN [action |-> "review_required", defer |-> FALSE]
    ELSE IF "medium" \in risk_levels
         THEN [action |-> "proceed_with_caution", defer |-> FALSE]
    ELSE [action |-> "acceptable", defer |-> FALSE]

\* DecisionAgent._calculate_decision_confidence
calculate_decision_confidence(overall_confidence, conflict_count) ==
    LET penalty == RMin(Rat(2 * conflict_count, 10), Rat(5, 10))
    IN  RMax(RSub(overall_confidence, penalty), RZero)

\* DecisionAgent.recommend_action
recommend_action(all_outputs, overall_confidence, conflicts) ==
    LET risk_levels == {all_outputs[i].risk_level :
                           i \in {j \in 1..Len(all_outputs) : all_outputs[j].success}}
        recommendation == determine_recommendation(risk_levels, overall_confidence,
                                                   conflicts)
    IN  [agent_type |-> "decision",
         confidence |-> calculate_decision_confidence(overall_confidence,
                                                      Len(conflicts)),
         findings |-> <<[recommendation |-> recommendation.action,
                         defer_if_needed |-> recommendation.defer]>>,
         risk_level |-> MaxRisk(risk_levels),
         success |-> TRUE,
         error_message |-> "",
         metadata |-> [recommendation |-> recommendation.action,
                       defer |-> recommendation.defer,
                       conflicts_present |-> Len(conflicts) > 0]]

(***************************************************************************)
(* State                                                                   *)
(***************************************************************************)
VARIABLES
    engine,             \* the ReliabilityEngine class orchestrator.reliability is
    use_mock,           \* S3Reader.use_mock
    blob_unreachable,   \* the S3 client could not be initialised or the read failed
    pc,                 \* position of analyze_repository
    code_files,         \* what read_code_snapshot returned
    feature_output,     \* FeatureExtractionAgent output
    routed,             \* number of snippets the last routing call returned
    agent_outputs,      \* outputs list of _run_analysis_agents
    conflicts,          \* detect_conflicts result
    overall_confidence, \* aggregate_confidence result
    deferral,           \* should_defer result
    decision_output,    \* recommend_action result
    report,             \* the FinalReport returned
    events,             \* the calls analyze_repository has made, in order
    agent_history,      \* ReliabilityEngine.agent_history (history engine)
    call,               \* the last direct call of a method of a component
    threads,            \* the calls of record_agent_performance in progress
    controller,         \* CodeReviewController.analyses and .reports
    workflow            \* GitS3Workflow: clone directories, tracked repos, result

vars == <<engine, use_mock, blob_unreachable, pc, code_files, feature_output,
          routed, agent_outputs, conflicts, overall_confidence, deferral,
          decision_output, report, events, agent_history, call, threads, controller, workflow>>

None == [none |-> TRUE]
NoCall == [fn |-> "none"]

Services == <<controller, workflow>>

\* CodeReviewController.__init__: no analysis, no report
NoController == [analyses |-> <<>>, reports |-> <<>>, created |-> 0]

\* GitS3Workflow.__init__ with a fresh GitHandler: nothing cloned, nothing
\* tracked, no workflow run yet
NoWorkflow == [disk |-> {}, cloned_repos |-> <<>>, result |-> None, runs |-> 0]

\* the threads that call record_agent_performance; a thread that is not in a
\* call is idle
MaxThreads == 2
Threads == 1..MaxThreads
Idle == [pc |-> "idle", agent_name |-> "", confidence |-> 0, ref |-> "none",
         sliced |-> <<>>]

ErrorMessages == {"", "error"}
Errors == {[raised |-> FALSE, msg |-> ""]} \cup
          {[raised |-> TRUE, msg |-> m] : m \in ErrorMessages}

ConfLevels == {65, 75, 95}
SecurityLLM ==
    {[findings |-> f, confidence |-> c] :
        f \in {<<>>, <<Finding({"vulnerable"}, "critical", "sqli")>>,
               <<Finding({"safe"}, "low", "input")>>,
               <<Finding({"invalid"}, "high", "auth")>>},
        c \in ConfLevels}
LogicLLM ==
    {[findings |-> f, confidence |-> c] :
        f \in {<<>>, <<Finding({"safe"}, "low", "infinite_loop")>>,
               <<Finding({"invalid"}, "low", "off_by_one")>>,
               <<Finding({"issue"}, "low", "style")>>},
        c \in ConfLevels}

\* Orchestrator.__init__: S3Reader._init_s3_client turns any failure to reach
\* the bucket into mock mode.
Init ==
    /\ engine \in {"gate", "history"}
    /\ \E init_ok \in BOOLEAN :
          /\ use_mock = ~init_ok
          /\ blob_unreachable = ~init_ok
    /\ pc = "read"
    /\ code_files = None
    /\ feature_output = None
    /\ routed = 0
    /\ agent_outputs = <<>>
    /\ conflicts = <<>>
    /\ overall_confidence = None
    /\ deferral = None
    /\ decision_output = None
    /\ report = None
    /\ events = <<>>
    /\ agent_history = [a \in {} |-> <<>>]
    /\ call = NoCall
    /\ threads = [t \in Threads |-> Idle]
    /\ controller = NoController
    /\ workflow = NoWorkflow

(***************************************************************************)
(* Orchestrator.analyze_repository, one action per call it makes           *)
(***************************************************************************)
\* S3Reader.read_code_snapshot
read_code_snapshot(mock, read_ok) ==
    IF mock THEN "mock"
    ELSE IF read_ok THEN "real"
    ELSE "mock"

ReadSnapshot ==
    /\ pc = "read"
    /\ \E read_ok \in BOOLEAN :
          /\ code_files' = read_code_snapshot(use_mock, read_ok)
          /\ blob_unreachable' = (blob_unreachable \/ (~use_mock /\ ~read_ok))
    /\ events' = Append(events, "read_code_snapshot")
    /\ pc' = "features"
    /\ UNCHANGED <<engine, use_mock, feature_output, routed, agent_outputs,
                   conflicts, overall_confidence, deferral, decision_output,
                   report, agent_history, call, threads, controller, workflow>>

\* Variant: the error report is not marked as deferred.
create_error_report_not_deferred(error_type, error_message) ==
    [overall_confidence |-> RZero,
     overall_risk_level |-> "none",
     agent_outputs |-> <<>>,
     conflicts |-> <<>>,
     recommendation |-> "Analysis failed",
     action_recommended |-> "defer",
     deferred |-> FALSE,
     deferral_reason |-> <<error_type, ": ", error_message>>,
     error |-> TRUE]

\* Orchestrator._create_error_report
create_error_report(error_type, error_message) ==
    [overall_confidence |-> RZero,
     overall_risk_level |-> "none",
     agent_outputs |-> <<>>,
     conflicts |-> <<>>,
     recommendation |-> "Analysis failed",
     action_recommended |-> "defer",
     deferred |-> TRUE,
     deferral_reason |-> <<error_type, ": ", error_message>>,
     error |-> TRUE]

ExtractFeatures ==
    /\ pc = "features"
    /\ \E err \in Errors :
          LET out == feature_analyze(err)
          IN  /\ feature_output' = out
              /\ IF ~out.success
                 THEN /\ report' = create_error_report("Feature extraction failed",
                                                       out.error_message)
                      /\ pc' = "returned"
                 ELSE /\ report' = report
                      /\ pc' = "route_security"
    /\ events' = Append(events, "feature_agent.analyze")
    /\ UNCHANGED <<engine, use_mock, blob_unreachable, code_files, routed,
                   agent_outputs, conflicts, overall_confidence, deferral,
                   decision_output, agent_history, call, threads, controller, workflow>>

\* One routing call inside a try block of _run_analysis_agents: it returns a
\* number of snippets or raises; the except branch only logs.
Route(at, call_name, then, skip) ==
    /\ pc = at
    /\ \/ /\ \E n \in 0..MaxRouted : routed' = n
          /\ events' = Append(events, call_name)
          /\ pc' = then
       \/ /\ routed' = 0
          /\ events' = Append(events, call_name \o "!raised")
          /\ pc' = skip
    /\ UNCHANGED <<engine, use_mock, blob_unreachable, code_files, feature_output,
                   agent_outputs, conflicts, overall_confidence, deferral,
                   decision_output, report, agent_history, call, threads, controller, workflow>>

RouteSecurity ==
    Route("route_security", "route_for_security_agent", "analyze_security",
          "route_logic")

AnalyzeSecurity ==
    /\ pc = "analyze_security"
    /\ \E llm \in SecurityLLM, err \in Errors :
          agent_outputs' = Append(agent_outputs, security_analyze(routed, llm, err))
    /\ events' = Append(events, "security_agent.analyze")
    /\ pc' = "route_logic"
    /\ UNCHANGED <<engine, use_mock, blob_unreachable, code_files, feature_output,
                   routed, conflicts, overall_confidence, deferral,
                   decision_output, report, agent_history, call, threads, controller, workflow>>

RouteLogic ==
    Route("route_logic", "route_for_logic_agent", "analyze_logic", "route_quality")

AnalyzeLogic ==
    /\ pc = "analyze_logic"
    /\ \E llm \in LogicLLM, err \in Errors :
          agent_outputs' = Append(agent_outputs, logic_analyze(routed, llm, err))
    /\ events' = Append(events, "logic_agent.analyze")
    /\ pc' = "route_quality"
    /\ UNCHANGED <<engine, use_mock, blob_unreachable, code_files, feature_output,
                   routed, conflicts, overall_confidence, deferral,
                   decision_output, report, agent_history, call, threads, controller, workflow>>

RouteQuality ==
    Route("route_quality", "route_for_quality_agent", "analyze_quality", "detect")

AnalyzeQuality ==
    /\ pc = "analyze_quality"
    /\ \E err \in Errors :
          agent_outputs' = Append(agent_outputs, quality_analyze(err))
    /\ events' = Append(events, "quality_agent.analyze")
    /\ pc' = "detect"
    /\ UNCHANGED <<engine, use_mock, blob_unreachable, code_files, feature_output,
                   routed, conflicts, overall_confidence, deferral,
                   decision_output, report, agent_history, call, threads, controller, workflow>>

DetectConflicts ==
    /\ pc = "detect"
    /\ conflicts' = detect_conflicts(agent_outputs)
    /\ events' = Append(events, "detect_conflicts")
    /\ pc' = "aggregate"
    /\ UNCHANGED <<engine, use_mock, blob_unreachable, code_files, feature_output,
                   routed, agent_outputs, overall_confidence, deferral,
                   decision_output, report, agent_history, call, threads, controller, workflow>>

AggregateConfidence ==
    /\ pc = "aggregate"
    /\ overall_confidence' =
          IF engine = "gate" THEN aggregate_confidence(agent_outputs)
          ELSE history_aggregate_confidence(agent_history, agent_outputs)
    /\ events' = Append(events, "aggregate_confidence")
    /\ pc' = "defer"
    /\ UNCHANGED <<engine, use_mock, blob_unreachable, code_files, feature_output,
                   routed, agent_outputs, conflicts, deferral, decision_output,
                   report, agent_history, call, threads, controller, workflow>>

\* reliability_engine.should_defer(overall_confidence, conflicts): the call
\* passes two arguments.  The history engine takes them; the safety-gate
\* engine requires failures and max_risk as well, so the call raises
\* TypeError, which analyze_repository does not catch.
CheckDeferral ==
    /\ pc = "defer"
    /\ IF engine = "history"
       THEN /\ deferral' = history_should_defer(overall_confidence, conflicts)
            /\ pc' = "decide"
       ELSE /\ deferral' = deferral
            /\ pc' = "raised"
    /\ events' = Append(events, "should_defer")
    /\ UNCHANGED <<engine, use_mock, blob_unreachable, code_files, feature_output,
                   routed, agent_outputs, conflicts, overall_confidence,
                   decision_output, report, agent_history, call, threads, controller, workflow>>

Decide ==
    /\ pc = "decide"
    /\ decision_output' = recommend_action(agent_outputs, overall_confidence, conflicts)
    /\ events' = Append(events, "recommend_action")
    /\ pc' = "report"
    /\ UNCHANGED <<engine, use_mock, blob_unreachable, code_files, feature_output,
                   routed, agent_outputs, conflicts, overall_confidence, deferral,
                   report, agent_history, call, threads, controller, workflow>>

\* Step 8 of analyze_repository: the FinalReport
final_report(feature, outputs, confl, confidence, gate, decision) ==
    LET risk_levels == {outputs[i].risk_level :
                           i \in {j \in 1..Len(outputs) : outputs[j].success}}
    IN  [overall_confidence |-> confidence,
         overall_risk_level |-> MaxRisk(risk_levels),
         agent_outputs |-> <<feature>> \o outputs \o <<decision>>,
         conflicts |-> confl,
         recommendation |-> decision.metadata.recommendation,
         action_recommended |-> decision.metadata.recommendation,
         deferred |-> gate.defer,
         deferral_reason |-> IF gate.defer THEN <<gate.reason.text>> ELSE <<>>,
         error |-> FALSE]

GenerateReport ==
    /\ pc = "report"
    /\ report' = final_report(feature_output, agent_outputs, conflicts,
                              overall_confidence, deferral, decision_output)
    /\ events' = Append(events, "FinalReport")
    /\ pc' = "returned"
    /\ UNCHANGED <<engine, use_mock, blob_unreachable, code_files, feature_output,
                   routed, agent_outputs, conflicts, overall_confidence, deferral,
                   decision_output, agent_history, call, threads, controller, workflow>>

Next ==
    \/ ReadSnapshot
    \/ ExtractFeatures
    \/ RouteSecurity
    \/ AnalyzeSecurity
    \/ RouteLogic
    \/ AnalyzeLogic
    \/ RouteQuality
    \/ AnalyzeQuality
    \/ DetectConflicts
    \/ AggregateConfidence
    \/ CheckDeferral
    \/ Decide
    \/ GenerateReport

Spec == Init /\ [][Next]_vars

(***************************************************************************)
(* Direct use of the safety-gate ReliabilityEngine, as in                  *)
(* tests/test_decision_safety.py: inputs are drawn from bounded sets.      *)
(***************************************************************************)
ConfGrid == {0, 1, 65, 69, 70, 75, 79, 80, 95, 100}
OutputConfs == {0, 65, 90, 100}
OutputRisks == {"none", "high", "critical"}

GateOutputs ==
    {AgentOutput(t, c, <<>>, r, TRUE, "") :
        t \in Specialists, c \in OutputConfs, r \in OutputRisks}
    \cup {AgentOutput(t, c, <<>>, "none", FALSE, "error") :
        t \in Specialists, c \in {0, 90}}

OutputLists == UNION {[1..n -> GateOutputs] : n \in 0..MaxOutputs}

SomeConflict == ConflictInfo(<<"security_analysis", "logic_analysis">>, Rat(1, 1), <<>>)
ConflictLists == {[i \in 1..n |-> SomeConflict] : n \in 0..MaxConflicts}

InitGate ==
    /\ engine = "gate"
    /\ use_mock = FALSE
    /\ blob_unreachable = FALSE
    /\ pc = "read"
    /\ code_files = None
    /\ feature_output = None
    /\ routed = 0
    /\ agent_outputs = <<>>
    /\ conflicts = <<>>
    /\ overall_confidence = None
    /\ deferral = None
    /\ decision_output = None
    /\ report = None
    /\ events = <<>>
    /\ agent_history = [a \in {} |-> <<>>]
    /\ call = NoCall
    /\ threads = [t \in Threads |-> Idle]
    /\ controller = NoController
    /\ workflow = NoWorkflow

Pipeline == <<engine, use_mock, blob_unreachable, pc, code_files, feature_output,
              routed, agent_outputs, conflicts, overall_confidence, deferral,
              decision_output, report, events, agent_history>>

\* should_defer called with an arbitrary confidence, conflict list, failure
\* summary and max risk
ShouldDeferCall ==
    /\ call = NoCall
    /\ \E c \in ConfGrid, cl \in ConflictLists, sf \in BOOLEAN, r \in RiskLevel :
          LET failures == [failed_agents |-> IF sf THEN <<"security_analysis">>
                                             ELSE <<>>,
                           security_failed |-> sf]
          IN  call' = [fn |-> "should_defer",
                       overall_confidence |-> Pct(c),
                       conflicts |-> cl,
                       failures |-> failures,
                       max_risk |-> r,
                       ret |-> should_defer(Pct(c), cl, failures, r)]
    /\ UNCHANGED <<Pipeline, threads, Services>>

\* The sequence of the safety tests: aggregate_confidence and get_failures
\* over a list of outputs, then should_defer on their results
EvaluateGate ==
    /\ call = NoCall
    /\ \E outs \in OutputLists, cl \in {<<>>, <<SomeConflict>>} :
          LET conf == aggregate_confidence(outs)
              failures == get_failures(outs)
              max_risk == MaxRisk({outs[i].risk_level :
                              i \in {j \in 1..Len(outs) : outs[j].success}})
          IN  call' = [fn |-> "evaluate",
                       outputs |-> outs,
                       overall_confidence |-> conf,
                       conflicts |-> cl,
                       failures |-> failures,
                       max_risk |-> max_risk,
                       ret |-> should_defer(conf, cl, failures, max_risk)]
    /\ UNCHANGED <<Pipeline, threads, Services>>

NextGate ==
    \/ ShouldDeferCall
    \/ EvaluateGate

SpecGate == InitGate /\ [][NextGate]_vars

(***************************************************************************)
(* GeminiClient (llm/gemini_client.py): the reply of the model is text,    *)
(* parse_json_response turns it into a JSON value, generate decides what   *)
(* the agent gets.  JSON values are modelled as json.loads builds them;    *)
(* numbers are integer percentages.                                        *)
(***************************************************************************)
JNum(p) == [type |-> "number", pct |-> p]
JStr(s) == [type |-> "string", str |-> s]
JArr(items) == [type |-> "array", items |-> items]
JObj(m) == [type |-> "object", members |-> m]

\* A reply text: how the JSON is laid out ("bare", inside a ``` fence that
\* opens the text, or with prose around it) and what stands between the
\* braces: a JSON value, balanced braces that are no JSON ("broken"), an
\* opening brace that is never closed ("unbalanced"), or no brace at all.
Layouts == {"bare", "fenced", "prose"}
JsonBody(v) == [kind |-> "json", value |-> v]
ReplyText(l, b) == [layout |-> l, body |-> b]

NoJsonError == JObj([error |-> JStr("No JSON found in response"),
                     raw |-> JStr("raw")])
InvalidJsonError == JObj([error |-> JStr("Invalid JSON in response"),
                          raw |-> JStr("raw")])

\* the objects that open at brace depth 0 of the text of v, in order
top_level_objects(v) ==
    IF v.type = "object" THEN <<v>>
    ELSE IF v.type = "array"
         THEN LET IsObject(x) == x.type = "object"
              IN  SelectSeq(v.items, IsObject)
         ELSE <<>>

\* backend GeminiClient.parse_json_response: strip the fence, json.loads the
\* whole text, else json.loads the first balanced {...}
parse_json_response(text) ==
    IF text.layout # "prose" /\ text.body.kind = "json"
    THEN text.body.value
    ELSE IF text.body.kind = "json"
         THEN LET objs == top_level_objects(text.body.value)
              IN  IF objs = <<>> THEN NoJsonError ELSE objs[1]
         ELSE IF text.body.kind = "broken" THEN InvalidJsonError
         ELSE NoJsonError

\* Python's `"error" in parsed`: a key test on a dict, an element test on a
\* list, TypeError on a number
error_in(parsed) ==
    IF parsed.type = "object"
    THEN IF "error" \in DOMAIN parsed.members THEN "yes" ELSE "no"
    ELSE IF parsed.type = "array"
         THEN IF \E i \in 1..Len(parsed.items) : parsed.items[i] = JStr("error")
              THEN "yes" ELSE "no"
         ELSE "raises"

\* A prompt: the marker phrases its upper-cased text contains and the code
\* patterns its snippet matches.
SecurityPatterns == <<"sql_injection", "code_execution">>
LogicPatterns == <<"infinite_loop", "off_by_one">>

PatternFindings(patterns, hits, key) ==
    LET Hit(p) == p \in hits
        found == SelectSeq(patterns, Hit)
    IN  [i \in 1..Len(found) |->
            JObj([k \in {key, "severity"} |->
                    IF k = key THEN JStr(found[i]) ELSE JStr("high")])]

NoIssues(key) ==
    <<JObj([k \in {key, "severity"} |->
               IF k = key THEN JStr("no_issues") ELSE JStr("info")])>>

Analysis(findings, pct) ==
    JObj([findings |-> JArr(findings), confidence |-> JNum(pct)])

Min(a, b) == IF a < b THEN a ELSE b

\* GeminiClient._analyze_security_patterns
analyze_security_patterns(hits) ==
    LET found == PatternFindings(SecurityPatterns, hits, "type")
        findings == IF found = <<>> THEN NoIssues("type") ELSE found
    IN  Analysis(findings, Min(90, 60 + Len(findings) * 10))

\* GeminiClient._analyze_logic_patterns
analyze_logic_patterns(hits) ==
    LET found == PatternFindings(LogicPatterns, hits, "issue")
        findings == IF found = <<>> THEN NoIssues("issue") ELSE found
    IN  Analysis(findings, Min(85, 60 + Len(findings) * 8))

\* GeminiClient._smart_fallback
smart_fallback(prompt) ==
    IF {"LOGIC", "DO NOT CHECK SECURITY"} \subseteq prompt.marks
    THEN analyze_logic_patterns(prompt.hits)
    ELSE IF "SECURITY" \in prompt.marks
         THEN analyze_security_patterns(prompt.hits)
         ELSE Analysis(<<>>, 60)

\* backend GeminiClient.generate; api is what model.generate_content did
generate(client_ready, has_key, api, prompt) ==
    IF client_ready /\ has_key
    THEN IF api.raised # "none"
         THEN smart_fallback(prompt)
         ELSE LET parsed == parse_json_response(api.text)
              IN  IF error_in(parsed) = "no" THEN parsed
                  ELSE smart_fallback(prompt)
    ELSE smart_fallback(prompt)

\* duhacks GeminiClient.parse_json_response: json.loads of the text from the
\* first "{" to the last "}"
duhacks_parse_json_response(text) ==
    IF text.body.kind = "json"
    THEN LET objs == top_level_objects(text.body.value)
         IN  IF objs = <<>> THEN JObj([error |-> JStr("No JSON found in response")])
             ELSE IF Len(objs) = 1 THEN objs[1]
             ELSE JObj([error |-> JStr("Invalid JSON in response")])
    ELSE IF text.body.kind = "broken"
         THEN JObj([error |-> JStr("Invalid JSON in response")])
         ELSE JObj([error |-> JStr("No JSON found in response")])

\* duhacks GeminiClient._mock_generate
mock_generate(prompt) ==
    IF "LOGIC" \in prompt.marks
    THEN Analysis(PatternFindings(<<"infinite_loop", "unreachable_code">>,
                                  {"infinite_loop", "unreachable_code"}, "issue"),
                  75)
    ELSE IF "SECURITY" \in prompt.marks
         THEN Analysis(PatternFindings(<<"sql_injection", "input_validation">>,
                                       {"sql_injection", "input_validation"}, "type"),
                       85)
         ELSE Analysis(<<>>, 60)

\* duhacks GeminiClient.generate
duhacks_generate(client_ready, has_key, api, prompt) ==
    IF client_ready /\ has_key
    THEN IF api.raised # "none"
         THEN mock_generate(prompt)
         ELSE duhacks_parse_json_response(api.text)
    ELSE mock_generate(prompt)

\* Inputs of the direct calls of generate
SomeFinding == JObj([type |-> JStr("sql_injection"), severity |-> JStr("high")])
ReplyValues ==
    {Analysis(<<>>, 70), Analysis(<<SomeFinding>>, 85),
     Analysis(<<SomeFinding>>, 150),
     JObj([findings |-> JStr("none"), confidence |-> JNum(70)]),
     JObj([findings |-> JArr(<<>>)]),
     JObj([summary |-> JStr("ok")]),
     JObj([error |-> JStr("overloaded")]),
     JArr(<<>>), JArr(<<SomeFinding>>), JArr(<<SomeFinding, SomeFinding>>),
     JNum(42)}
ReplyTexts ==
    {ReplyText(l, b) :
        l \in Layouts,
        b \in {JsonBody(v) : v \in ReplyValues}
              \cup {[kind |-> k] : k \in {"broken", "unbalanced", "none"}}}
ApiOutcomes ==
    {[raised |-> r, text |-> ReplyText("bare", [kind |-> "none"])] :
        r \in {"quota", "other"}}
    \cup {[raised |-> "none", text |-> t] : t \in ReplyTexts}
Prompts ==
    {[marks |-> m, hits |-> h] :
        m \in {{}, {"SECURITY"}, {"LOGIC"}, {"LOGIC", "SECURITY"},
               {"LOGIC", "SECURITY", "DO NOT CHECK SECURITY"}},
        h \in SUBSET {"sql_injection", "infinite_loop", "off_by_one"}}

\* generate of the backend client: __init__ sets client_ready only with a
\* real key
GenerateCall ==
    /\ call = NoCall
    /\ \E ready \in BOOLEAN, key \in BOOLEAN, api \in ApiOutcomes, p \in Prompts :
          /\ ready => key
          /\ call' = [fn |-> "generate", client |-> "backend",
                      consulted |-> ready /\ key, api |-> api, prompt |-> p,
                      fallback |-> smart_fallback(p),
                      ret |-> generate(ready, key, api, p)]
    /\ UNCHANGED <<Pipeline, threads, Services>>

\* generate of the duhacks client
DuhacksGenerateCall ==
    /\ call = NoCall
    /\ \E ready \in BOOLEAN, key \in BOOLEAN, api \in ApiOutcomes, p \in Prompts :
          call' = [fn |-> "generate", client |-> "duhacks",
                   consulted |-> ready /\ key, api |-> api, prompt |-> p,
                   fallback |-> mock_generate(p),
                   ret |-> duhacks_generate(ready, key, api, p)]
    /\ UNCHANGED <<Pipeline, threads, Services>>

NextLLM ==
    \/ GenerateCall
    \/ DuhacksGenerateCall

SpecLLM == InitGate /\ [][NextLLM]_vars

(***************************************************************************)
(* Direct use of ConflictResolver.detect_conflicts on lists of outputs     *)
(***************************************************************************)
FindingLists ==
    {<<>>,
     <<Finding({"safe"}, "low", "input")>>,
     <<Finding({"vulnerable"}, "critical", "sqli"), Finding({"safe"}, "low", "input")>>,
     <<Finding({"invalid"}, "high", "auth")>>}

ResolverOutputs ==
    {AgentOutput(t, 90, f, r, TRUE, "") :
        t \in Specialists, f \in FindingLists, r \in RiskLevel}
    \cup {failure_output(t, "error") : t \in Specialists}

ResolverOutputLists == UNION {[1..n -> ResolverOutputs] : n \in 0..MaxOutputs}

DetectConflictsCall ==
    /\ call = NoCall
    /\ \E outs \in ResolverOutputLists :
          call' = [fn |-> "detect_conflicts",
                   outputs |-> outs,
                   ret |-> detect_conflicts(outs)]
    /\ UNCHANGED <<Pipeline, threads, Services>>

NextResolver == DetectConflictsCall

SpecResolver == InitGate /\ [][NextResolver]_vars

(***************************************************************************)
(* Direct use of DecisionAgent.recommend_action                            *)
(***************************************************************************)
MaxDecisionConflicts == 3

DecisionOutputs ==
    {AgentOutput(t, 90, <<>>, r, TRUE, "") : t \in Specialists, r \in RiskLevel}
    \cup {failure_output(t, "error") : t \in Specialists}

DecisionOutputLists == UNION {[1..n -> DecisionOutputs] : n \in 0..MaxOutputs}

DecisionConflicts ==
    {ConflictInfo(<<"security_analysis", "logic_analysis">>, d, <<>>) :
        d \in {Rat(2, 4), Rat(4, 4)}}

DecisionConflictLists ==
    UNION {[1..n -> DecisionConflicts] : n \in 0..MaxDecisionConflicts}

RecommendActionCall ==
    /\ call = NoCall
    /\ \E outs \in DecisionOutputLists, c \in ConfGrid, cl \in DecisionConflictLists :
          call' = [fn |-> "recommend_action",
                   all_outputs |-> outs,
                   overall_confidence |-> Pct(c),
                   conflicts |-> cl,
                   ret |-> recommend_action(outs, Pct(c), cl)]
    /\ UNCHANGED <<Pipeline, threads, Services>>

NextDecision == RecommendActionCall

SpecDecision == InitGate /\ [][NextDecision]_vars

(***************************************************************************)
(* RoutingPolicy (backend/orchestrator/routing_policy.py).  A file is the  *)
(* list of its lines; a line is its length, its indentation and what it    *)
(* holds; the content of a snippet is its length in characters.            *)
(***************************************************************************)
max_snippets_per_agent == 5
max_snippet_chars == 500

MaxFetched == 6

Line(kind, len, indent) == [kind |-> kind, len |-> len, indent |-> indent]
CodeFile(filename, lines) == [filename |-> filename, lines |-> lines]
Content(len) == [len |-> len]
CodeSnippet(filename, start_line, end_line, content, relevance_score) ==
    [filename |-> filename, start_line |-> start_line, end_line |-> end_line,
     content |-> content, relevance_score |-> relevance_score]

Take(s, n) == SubSeq(s, 1, Min(n, Len(s)))

\* the pattern tables of _extract_security_snippets and
\* _extract_logic_snippets, in dict order; `line` is the kind of line the
\* regular expression matches, priority is a percentage
security_patterns ==
    <<[name |-> "sql_injection", line |-> "sql_concat", priority |-> 100],
      [name |-> "code_execution", line |-> "eval_call", priority |-> 90],
      [name |-> "insecure_deserialization", line |-> "pickle_load", priority |-> 85],
      [name |-> "path_traversal", line |-> "open_concat", priority |-> 80]>>
logic_patterns ==
    <<[name |-> "infinite_loop_risk", line |-> "while_true", priority |-> 100],
      [name |-> "complex_loop", line |-> "for_loop", priority |-> 60],
      [name |-> "nested_conditional", line |-> "if", priority |-> 50]>>

\* the security keywords a line of each kind contains
security_keywords == {"password", "token", "auth", "sql", "exec", "eval", "crypto"}
keywords_in(line) ==
    IF line.kind = "eval_call" THEN {"eval"}
    ELSE IF line.kind = "password" THEN {"password"}
    ELSE {}

\* RoutingPolicy._is_security_file
is_security_file(lines) ==
    \E kw \in security_keywords :
        \E n \in 1..Len(lines) : kw \in keywords_in(lines[n])

\* RoutingPolicy._calculate_nesting
calculate_nesting(lines, line_num) ==
    IF line_num > Len(lines) THEN 0 ELSE lines[line_num].indent \div 4

\* len('\n'.join(lines[start:end])), start and end counted from 0
RECURSIVE JoinedLen(_, _, _)
JoinedLen(lines, start, end) ==
    IF end <= start THEN 0
    ELSE IF end = start + 1 THEN lines[end].len
    ELSE JoinedLen(lines, start, end - 1) + 1 + lines[end].len

\* the while loop of _extract_bounded_snippet
RECURSIVE expand_snippet(_, _, _, _, _)
expand_snippet(lines, start, end, len, max_chars) ==
    IF len < max_chars /\ (start > 0 \/ end < Len(lines))
    THEN LET start1 == IF start > 0 THEN start - 1 ELSE start
             len1 == IF start > 0 THEN lines[start].len + 1 + len ELSE len
             grow == len1 < max_chars /\ end < Len(lines)
             len2 == IF grow THEN len1 + 1 + lines[end + 1].len ELSE len1
             end2 == IF grow THEN end + 1 ELSE end
         IN  expand_snippet(lines, start1, end2, len2, max_chars)
    ELSE [start |-> start, end |-> end, len |-> len]

\* RoutingPolicy._extract_bounded_snippet
extract_bounded_snippet(lines, target_line, max_chars) ==
    LET start == IF target_line - 1 > 0 THEN target_line - 1 ELSE 0
        end == Min(Len(lines), target_line + 1)
        grown == expand_snippet(lines, start, end, JoinedLen(lines, start, end),
                                max_chars)
    IN  [content |-> Content(Min(grown.len, max_chars)),
         start_line |-> grown.start + 1,
         end_line |-> grown.end]

\* snippets.sort(key=relevance_score, reverse=True): a stable sort
sort_by_relevance(snippets) ==
    Flatten([k \in 1..101 |->
        SelectSeq(snippets, LAMBDA s : s.relevance_score = 101 - k)])

\* RoutingPolicy._extract_security_snippets
extract_security_snippets(files) ==
    LET per_pattern(file, pat) ==
            Flatten([n \in 1..Len(file.lines) |->
                IF file.lines[n].kind = pat.line
                THEN LET b == extract_bounded_snippet(file.lines, n, max_snippet_chars)
                     IN  <<CodeSnippet(file.filename, b.start_line, b.end_line,
                                       b.content, pat.priority)>>
                ELSE <<>>])
        per_file(file) ==
            Flatten([p \in 1..Len(security_patterns) |->
                per_pattern(file, security_patterns[p])])
    IN  Take(sort_by_relevance(Flatten([k \in 1..Len(files) |->
                                           per_file(files[k])])),
             max_snippets_per_agent)

\* RoutingPolicy._extract_logic_snippets
extract_logic_snippets(files) ==
    LET per_pattern(file, pat) ==
            Flatten([n \in 1..Len(file.lines) |->
                LET nesting == calculate_nesting(file.lines, n)
                    b == extract_bounded_snippet(file.lines, n, max_snippet_chars)
                IN  IF file.lines[n].kind = pat.line
                       /\ ~(nesting < 2 /\ pat.name # "infinite_loop_risk")
                    THEN <<CodeSnippet(file.filename, b.start_line, b.end_line,
                                       b.content,
                                       Min(100, pat.priority + nesting * 10))>>
                    ELSE <<>>])
        per_file(file) ==
            IF is_security_file(file.lines) THEN <<>>
            ELSE Flatten([p \in 1..Len(logic_patterns) |->
                     per_pattern(file, logic_patterns[p])])
    IN  Take(sort_by_relevance(Flatten([k \in 1..Len(files) |->
                                           per_file(files[k])])),
             max_snippets_per_agent)

\* as "Enforce constraints", but without truncating the contents
enforce_constraints_count_only(snippets) ==
    Take(snippets, max_snippets_per_agent)

\* "Enforce constraints" of both routing functions
enforce_constraints(snippets) ==
    LET kept == Take(snippets, max_snippets_per_agent)
    IN  [i \in 1..Len(kept) |->
            IF kept[i].content.len > max_snippet_chars
            THEN [kept[i] EXCEPT !.content = Content(max_snippet_chars)]
            ELSE kept[i]]

\* RoutingPolicy.route_for_security_agent: the snippets it returns.  reader
\* says that s3_reader and s3_path were passed, fetched is what
\* get_code_snippets returned.
route_for_security_agent(files, reader, fetched) ==
    LET snippets == IF reader THEN fetched ELSE <<>>
    IN  enforce_constraints(IF snippets = <<>>
                            THEN extract_security_snippets(files)
                            ELSE snippets)

\* RoutingPolicy.route_for_logic_agent: the snippets it returns
route_for_logic_agent(files, reader, fetched) ==
    LET snippets == IF reader THEN fetched ELSE <<>>
    IN  enforce_constraints(IF snippets = <<>>
                            THEN extract_logic_snippets(files)
                            ELSE snippets)

\* Inputs of the direct calls of the routing functions
SampleFiles ==
    <<CodeFile("loops.py", [n \in 1..7 |-> Line("while_true", 12, 4)]),
      CodeFile("long.py", <<Line("plain", 300, 0), Line("while_true", 600, 0),
                            Line("if", 300, 8)>>),
      CodeFile("auth.py", <<Line("password", 20, 0), Line("while_true", 12, 4),
                            Line("plain", 450, 0)>>),
      CodeFile("evals.py", [n \in 1..6 |-> Line("eval_call", 30, 0)]),
      CodeFile("db.py", <<Line("sql_concat", 520, 0), Line("for_loop", 40, 8)>>)>>

CodeFileSets ==
    {Flatten([i \in 1..Len(SampleFiles) |->
                 IF i \in S THEN <<SampleFiles[i]>> ELSE <<>>]) :
        S \in SUBSET (1..Len(SampleFiles))}

FetchedSnippets ==
    {CodeSnippet("auth.py", 1, 3, Content(600), 90),
     CodeSnippet("loops.py", 1, 2, Content(25), 50)}
FetchedLists == UNION {[1..n -> FetchedSnippets] : n \in 0..MaxFetched}

RouteForSecurityCall ==
    /\ call = NoCall
    /\ \E files \in CodeFileSets, reader \in BOOLEAN, fetched \in FetchedLists :
          call' = [fn |-> "route_for_security_agent",
                   code_files |-> files, reader |-> reader, fetched |-> fetched,
                   ret |-> route_for_security_agent(files, reader, fetched)]
    /\ UNCHANGED <<Pipeline, threads, Services>>

RouteForLogicCall ==
    /\ call = NoCall
    /\ \E files \in CodeFileSets, reader \in BOOLEAN, fetched \in FetchedLists :
          call' = [fn |-> "route_for_logic_agent",
                   code_files |-> files, reader |-> reader, fetched |-> fetched,
                   ret |-> route_for_logic_agent(files, reader, fetched)]
    /\ UNCHANGED <<Pipeline, threads, Services>>

NextRouting ==
    \/ RouteForSecurityCall
    \/ RouteForLogicCall

SpecRouting == InitGate /\ [][NextRouting]_vars

(***************************************************************************)
(* LogicSelector (duhacks/.../snippet/selectors/logic_selector.py)         *)
(***************************************************************************)
MaxBlocks == 6

\* snippet/ir/code_block.py; a metadata key that is absent reads as FALSE
CodeBlock(type, name, complexity, is_recursive, is_infinite) ==
    [type |-> type, name |-> name, complexity |-> complexity,
     metadata |-> [is_recursive |-> is_recursive, is_infinite |-> is_infinite]]

\* the three rules of the loop of LogicSelector.select
is_selected(block) ==
    \/ block.complexity >= 4
    \/ block.type = "function" /\ block.metadata.is_recursive
    \/ block.type = "loop" /\ block.metadata.is_infinite

\* selected.sort(key=complexity, reverse=True): a stable sort
sort_by_complexity(selected) ==
    LET top == IF selected = <<>> THEN 0
               ELSE CHOOSE c \in {selected[i].complexity : i \in 1..Len(selected)} :
                        \A i \in 1..Len(selected) : selected[i].complexity <= c
    IN  Flatten([k \in 1..(top + 1) |->
            SelectSeq(selected, LAMBDA b : b.complexity = top + 1 - k)])

\* as LogicSelector.select, but the selection is cut without being sorted
select_unsorted(blocks) ==
    Take(SelectSeq(blocks, is_selected), 5)

\* LogicSelector.select
select(blocks) ==
    Take(sort_by_complexity(SelectSeq(blocks, is_selected)), 5)

\* Inputs of the direct calls of select
SampleBlocks ==
    {CodeBlock("function", "helper", 1, FALSE, FALSE),
     CodeBlock("function", "walk", 2, TRUE, FALSE),
     CodeBlock("loop", "", 1, FALSE, TRUE),
     CodeBlock("loop", "", 3, TRUE, FALSE),
     CodeBlock("function", "parse", 4, FALSE, FALSE),
     CodeBlock("class", "Engine", 6, FALSE, FALSE)}

BlockLists == UNION {[1..n -> SampleBlocks] : n \in 0..MaxBlocks}

SelectCall ==
    /\ call = NoCall
    /\ \E blocks \in BlockLists :
          call' = [fn |-> "select", blocks |-> blocks, ret |-> select(blocks)]
    /\ UNCHANGED <<Pipeline, threads, Services>>

NextSelector == SelectCall

SpecSelector == InitGate /\ [][NextSelector]_vars

(***************************************************************************)
(* ReliabilityEngine.record_agent_performance (OneDrive/.../reliability.py) *)
(* called by several threads on one engine.  The method takes no lock, so  *)
(* the threads interleave between its dictionary and list operations.  A   *)
(* thread that has loaded the list of its key holds a reference to that    *)
(* list object: the reference is "live" while agent_history[key] is that   *)
(* object and "orphan" once the entry has been rebound to another list.    *)
(***************************************************************************)
history_cap == 100

HistoryKeys == {"security_analysis", "logic_analysis"}
SampleOf(t) == 60 + t

InitHistory ==
    /\ engine = "history"
    /\ use_mock = FALSE
    /\ blob_unreachable = FALSE
    /\ pc = "read"
    /\ code_files = None
    /\ feature_output = None
    /\ routed = 0
    /\ agent_outputs = <<>>
    /\ conflicts = <<>>
    /\ overall_confidence = None
    /\ deferral = None
    /\ decision_output = None
    /\ report = None
    /\ events = <<>>
    /\ \E n \in {0, history_cap - 1, history_cap} :
          agent_history = IF n = 0 THEN [a \in {} |-> <<>>]
                          ELSE [a \in {"security_analysis"} |->
                                   [i \in 1..n |-> 50]]
    /\ call = NoCall
    /\ threads = [t \in Threads |-> Idle]
    /\ controller = NoController
    /\ workflow = NoWorkflow

HistoryFrame == <<engine, use_mock, blob_unreachable, pc, code_files,
                  feature_output, routed, agent_outputs, conflicts,
                  overall_confidence, deferral, decision_output, report, events,
                  call, controller, workflow>>

\* agent_history[key] is bound to the list `list`; every other thread whose
\* reference was the old list of that key now holds an orphan
Rebind(t, key, list, next) ==
    /\ agent_history' =
          [k \in DOMAIN agent_history \cup {key} |->
              IF k = key THEN list ELSE agent_history[k]]
    /\ threads' =
          [u \in Threads |->
              IF u = t THEN [threads[t] EXCEPT !.pc = next]
              ELSE IF threads[u].agent_name = key /\ threads[u].ref = "live"
                   THEN [threads[u] EXCEPT !.ref = "orphan"]
                   ELSE threads[u]]

\* a thread enters record_agent_performance(agent_name, confidence)
EnterRecord(t) ==
    /\ threads[t].pc = "idle"
    /\ \E a \in HistoryKeys :
          threads' = [threads EXCEPT ![t] =
                         [Idle EXCEPT !.pc = "check", !.agent_name = a,
                                      !.confidence = SampleOf(t)]]
    /\ UNCHANGED <<HistoryFrame, agent_history>>

\* if agent_name not in self.agent_history:
CheckKey(t) ==
    /\ threads[t].pc = "check"
    /\ threads' = [threads EXCEPT ![t].pc =
                      IF threads[t].agent_name \notin DOMAIN agent_history
                      THEN "create" ELSE "load"]
    /\ UNCHANGED <<HistoryFrame, agent_history>>

\* self.agent_history[agent_name] = []
CreateList(t) ==
    /\ threads[t].pc = "create"
    /\ Rebind(t, threads[t].agent_name, <<>>, "load")
    /\ UNCHANGED HistoryFrame

\* self.agent_history[agent_name]  (the receiver of .append)
LoadList(t) ==
    /\ threads[t].pc = "load"
    /\ threads' = [threads EXCEPT ![t].pc = "append", ![t].ref = "live"]
    /\ UNCHANGED <<HistoryFrame, agent_history>>

\* .append(confidence), on the list that was loaded
AppendSample(t) ==
    /\ threads[t].pc = "append"
    /\ agent_history' =
          IF threads[t].ref = "live"
          THEN [agent_history EXCEPT ![threads[t].agent_name] =
                   Append(@, threads[t].confidence)]
          ELSE agent_history
    /\ threads' = [threads EXCEPT ![t].pc = "len", ![t].ref = "none"]
    /\ UNCHANGED HistoryFrame

\* if len(self.agent_history[agent_name]) > 100:
CheckLength(t) ==
    /\ threads[t].pc = "len"
    /\ threads' = [threads EXCEPT ![t].pc =
                      IF Len(agent_history[threads[t].agent_name]) > history_cap
                      THEN "slice" ELSE "done"]
    /\ UNCHANGED <<HistoryFrame, agent_history>>

\* self.agent_history[agent_name][-100:]
SliceList(t) ==
    /\ threads[t].pc = "slice"
    /\ LET list == agent_history[threads[t].agent_name]
           from == IF Len(list) > history_cap THEN Len(list) - history_cap + 1 ELSE 1
       IN  threads' = [threads EXCEPT ![t].pc = "assign",
                                      ![t].sliced = SubSeq(list, from, Len(list))]
    /\ UNCHANGED <<HistoryFrame, agent_history>>

\* self.agent_history[agent_name] = <the slice>
AssignSlice(t) ==
    /\ threads[t].pc = "assign"
    /\ Rebind(t, threads[t].agent_name, threads[t].sliced, "done")
    /\ UNCHANGED HistoryFrame

NextHistory ==
    \E t \in Threads :
        \/ EnterRecord(t)
        \/ CheckKey(t)
        \/ CreateList(t)
        \/ LoadList(t)
        \/ AppendSample(t)
        \/ CheckLength(t)
        \/ SliceList(t)
        \/ AssignSlice(t)

SpecHistory == InitHistory /\ [][NextHistory]_vars

(***************************************************************************)
(* One thread that records performance samples on the history engine and   *)
(* then aggregates a list of outputs                                       *)
(***************************************************************************)
MaxSamples == 2

\* ReliabilityEngine.record_agent_performance, run without interruption
record_agent_performance(history, agent_name, confidence) ==
    LET list == IF agent_name \in DOMAIN history THEN history[agent_name] ELSE <<>>
        appended == Append(list, confidence)
        kept == IF Len(appended) > history_cap
                THEN SubSeq(appended, Len(appended) - history_cap + 1, Len(appended))
                ELSE appended
    IN  [k \in DOMAIN history \cup {agent_name} |->
            IF k = agent_name THEN kept ELSE history[k]]

HistorySamples == {50, 100}

HistoryOutputs ==
    {AgentOutput(t, c, <<>>, "none", TRUE, "") :
        t \in {"security_analysis", "logic_analysis"}, c \in {80, 100}}
    \cup {failure_output("security_analysis", "error")}
HistoryOutputLists == UNION {[1..n -> HistoryOutputs] : n \in 0..2}

RECURSIVE TotalSamples(_, _)
TotalSamples(history, keys) ==
    IF keys = {} THEN 0
    ELSE LET k == CHOOSE x \in keys : TRUE
         IN  Len(history[k]) + TotalSamples(history, keys \ {k})

InitRecord ==
    /\ engine = "history"
    /\ use_mock = FALSE
    /\ blob_unreachable = FALSE
    /\ pc = "read"
    /\ code_files = None
    /\ feature_output = None
    /\ routed = 0
    /\ agent_outputs = <<>>
    /\ conflicts = <<>>
    /\ overall_confidence = None
    /\ deferral = None
    /\ decision_output = None
    /\ report = None
    /\ events = <<>>
    /\ agent_history = [a \in {} |-> <<>>]
    /\ call = NoCall
    /\ threads = [t \in Threads |-> Idle]
    /\ controller = NoController
    /\ workflow = NoWorkflow

RecordCall ==
    /\ call = NoCall
    /\ TotalSamples(agent_history, DOMAIN agent_history) < MaxSamples
    /\ \E a \in {"security_analysis", "logic_analysis"}, c \in HistorySamples :
          agent_history' = record_agent_performance(agent_history, a, c)
    /\ UNCHANGED <<HistoryFrame, threads>>

\* aggregate_confidence of the history engine; `fresh` is what the same call
\* returns on an engine that has recorded nothing
AggregateHistoryCall ==
    /\ call = NoCall
    /\ \E outs \in HistoryOutputLists :
          call' = [fn |-> "history_aggregate_confidence",
                   outputs |-> outs,
                   fresh |-> history_aggregate_confidence([a \in {} |-> <<>>], outs),
                   ret |-> history_aggregate_confidence(agent_history, outs)]
    /\ UNCHANGED <<Pipeline, threads, Services>>

NextRecord ==
    \/ RecordCall
    \/ AggregateHistoryCall

SpecRecord == InitRecord /\ [][NextRecord]_vars

(***************************************************************************)
(* Snippet parsers: _compute_complexity over a syntax tree                 *)
(***************************************************************************)
MaxStmts == 2

Node(type, children) == [type |-> type, children |-> children]

RECURSIVE Total(_)
Total(ints) == IF ints = <<>> THEN 0 ELSE Head(ints) + Total(Tail(ints))

\* PythonParser._compute_complexity: ast.walk visits every descendant, also
\* those inside nested function and class definitions
python_counted == {"If", "For", "AsyncFor", "While", "Try", "ExceptHandler", "BoolOp"}

RECURSIVE python_walk(_)
python_walk(node) ==
    Total([i \in 1..Len(node.children) |->
              (IF node.children[i].type \in python_counted THEN 1 ELSE 0)
              + python_walk(node.children[i])])

python_compute_complexity(node) == 1 + python_walk(node)

\* JavaParser._compute_complexity: the children of a popped node are pushed
\* only when that node is not the root
java_counted == {"if_statement", "for_statement", "enhanced_for_statement",
                 "while_statement", "do_statement", "catch_clause",
                 "ternary_expression"}
java_declarations == {"method_declaration", "constructor_declaration",
                      "class_declaration"}

HasChild(node, types) == \E i \in 1..Len(node.children) : node.children[i].type \in types

java_increment(curr) ==
    IF curr.type \in java_counted THEN 1
    ELSE IF curr.type = "switch_label"
         THEN (IF Len(curr.children) > 0 /\ curr.children[1].type = "case" THEN 1 ELSE 0)
    ELSE IF curr.type = "binary_expression"
         THEN Cardinality({i \in 1..Len(curr.children) :
                              curr.children[i].type \in {"&&", "||"}})
    ELSE 0

RECURSIVE java_visit(_, _)
java_visit(curr, node) ==
    java_increment(curr)
    + (IF curr # node /\ curr.type \notin java_declarations
       THEN Total([i \in 1..Len(curr.children) |-> java_visit(curr.children[i], node)])
       ELSE 0)

java_compute_complexity(node) == 1 + java_visit(node, node)

\* JavascriptParser._compute_complexity: the first binary_expression branch
\* does nothing and hides the second one, which is left for logical_expression
javascript_counted == {"if_statement", "for_statement", "while_statement",
                       "do_statement", "case_clause", "catch_clause",
                       "ternary_expression"}
javascript_functions == {"function_declaration", "function_expression", "arrow_function"}

javascript_increment(curr) ==
    IF curr.type \in javascript_counted THEN 1
    ELSE IF curr.type = "binary_expression" THEN 0
    ELSE IF curr.type = "logical_expression"
         THEN Cardinality({i \in 1..Len(curr.children) :
                              curr.children[i].type \in {"&&", "||"}})
    ELSE 0

RECURSIVE javascript_visit(_, _)
javascript_visit(curr, node) ==
    javascript_increment(curr)
    + (IF curr # node
       THEN Total([i \in 1..Len(curr.children) |->
                      IF curr.children[i].type \in javascript_functions THEN 0
                      ELSE javascript_visit(curr.children[i], node)])
       ELSE 0)

javascript_compute_complexity(node) == 1 + javascript_visit(node, node)

\* sample trees: a function whose body holds up to MaxStmts statements, each a
\* leaf or an if / nested function around at most one leaf
Grammar ==
    [python |-> [function |-> "FunctionDef", branch |-> "If", ternary |-> "IfExp",
                 logical |-> Node("BoolOp", <<Node("And", <<>>)>>),
                 plain |-> "Expr"],
     java |-> [function |-> "method_declaration", branch |-> "if_statement",
               ternary |-> "ternary_expression",
               logical |-> Node("binary_expression", <<Node("&&", <<>>)>>),
               plain |-> "expression_statement"],
     javascript |-> [function |-> "function_declaration", branch |-> "if_statement",
                     ternary |-> "ternary_expression",
                     logical |-> Node("binary_expression", <<Node("||", <<>>)>>),
                     plain |-> "expression_statement"]]

Leaves(g) == {Node(g.branch, <<>>), Node(g.ternary, <<>>), g.logical, Node(g.plain, <<>>)}
Statements(g) ==
    Leaves(g)
    \cup {Node(t, <<>>) : t \in {g.branch, g.function}}
    \cup {Node(t, <<leaf>>) : t \in {g.branch, g.function}, leaf \in Leaves(g)}
Functions(g) ==
    {Node(g.function, body) : body \in UNION {[1..n -> Statements(g)] : n \in 0..MaxStmts}}

ComputePython ==
    /\ call = NoCall
    /\ \E node \in Functions(Grammar.python) :
          call' = [fn |-> "_compute_complexity", language |-> "python",
                   node |-> node, ret |-> python_compute_complexity(node)]
    /\ UNCHANGED <<Pipeline, threads, Services>>

ComputeJava ==
    /\ call = NoCall
    /\ \E node \in Functions(Grammar.java) :
          call' = [fn |-> "_compute_complexity", language |-> "java",
                   node |-> node, ret |-> java_compute_complexity(node)]
    /\ UNCHANGED <<Pipeline, threads, Services>>

ComputeJavascript ==
    /\ call = NoCall
    /\ \E node \in Functions(Grammar.javascript) :
          call' = [fn |-> "_compute_complexity", language |-> "javascript",
                   node |-> node, ret |-> javascript_compute_complexity(node)]
    /\ UNCHANGED <<Pipeline, threads, Services>>

NextParser ==
    \/ ComputePython
    \/ ComputeJava
    \/ ComputeJavascript

SpecParser == InitGate /\ [][NextParser]_vars

(***************************************************************************)
(* RoutingPolicy helpers called for every pattern match:                   *)
(* _find_function_context and _extract_bounded_snippet                     *)
(***************************************************************************)
MaxDecls == 2
context_window == 20

\* a source line as _find_function_context sees it: what re.match finds at
\* the start of the stripped line
SourceLine(kind, name) == [kind |-> kind, name |-> name]
Context(kind, name) == [kind |-> kind, name |-> name]
global_scope == Context("global scope", "")

\* the for loop of _find_function_context over range(first, line_num),
\* indexes counted from 0
RECURSIVE scan_context(_, _, _)
scan_context(lines, i, line_num) ==
    IF i >= line_num THEN global_scope
    ELSE IF lines[i + 1].kind = "def" THEN Context("function", lines[i + 1].name)
    ELSE IF lines[i + 1].kind = "class" THEN Context("class", lines[i + 1].name)
    ELSE scan_context(lines, i + 1, line_num)

\* RoutingPolicy._find_function_context
find_function_context(lines, line_num) ==
    scan_context(lines,
                 IF line_num - context_window > 0 THEN line_num - context_window ELSE 0,
                 line_num)

SourceLines ==
    {SourceLine("plain", ""), SourceLine("def", "f"), SourceLine("def", "g"),
     SourceLine("class", "C")}
Padding == {0, context_window - 3, context_window - 2, context_window - 1}
SourceTexts ==
    {head \o [n \in 1..pad |-> SourceLine("plain", "")] \o tail :
        head \in UNION {[1..n -> SourceLines] : n \in 0..MaxDecls},
        pad \in Padding,
        tail \in UNION {[1..n -> SourceLines] : n \in 1..2}}

FindFunctionContextCall ==
    /\ call = NoCall
    /\ \E lines \in SourceTexts :
          \E line_num \in 1..Len(lines) :
             call' = [fn |-> "_find_function_context",
                      lines |-> lines, line_num |-> line_num,
                      ret |-> find_function_context(lines, line_num)]
    /\ UNCHANGED <<Pipeline, threads, Services>>

ExtractBoundedSnippetCall ==
    /\ call = NoCall
    /\ \E f \in 1..Len(SampleFiles) :
          \E target_line \in 1..Len(SampleFiles[f].lines) :
             call' = [fn |-> "_extract_bounded_snippet",
                      lines |-> SampleFiles[f].lines, target_line |-> target_line,
                      ret |-> extract_bounded_snippet(SampleFiles[f].lines, target_line,
                                                      max_snippet_chars)]
    /\ UNCHANGED <<Pipeline, threads, Services>>

NextSnippet ==
    \/ FindFunctionContextCall
    \/ ExtractBoundedSnippetCall

SpecSnippet == InitGate /\ [][NextSnippet]_vars

(***************************************************************************)
(* CodeReviewController (duhacks/.../api/controllers.py): requests served  *)
(* one after the other                                                     *)
(***************************************************************************)
MaxAnalyses == 2
MaxStarts == 2

AnalysisIds == 1..MaxAnalyses

Put(dict, key, value) ==
    [k \in DOMAIN dict \cup {key} |-> IF k = key THEN value ELSE dict[k]]
Del(dict, key) == [k \in DOMAIN dict \ {key} |-> dict[k]]

\* upload_repository: a fresh analysis id; the metadata is stored only when
\* saving, unzipping and uploading all went through, otherwise the exception
\* is raised again
UploadRepository ==
    /\ controller.created < MaxAnalyses
    /\ \E stored \in BOOLEAN :
          LET analysis_id == controller.created + 1
          IN  controller' =
                 [controller EXCEPT
                    !.created = analysis_id,
                    !.analyses =
                        IF stored
                        THEN Put(@, analysis_id, [status |-> "UPLOADED", starts |-> 0])
                        ELSE @]
    /\ UNCHANGED <<Pipeline, call, threads, workflow>>

\* start_analysis: ValueError for an unknown id; otherwise the status goes to
\* IN_PROGRESS, the orchestrator runs, and either its report is stored and
\* the status becomes COMPLETED, or the exception is caught and the status
\* becomes FAILED
StartAnalysis ==
    /\ \E analysis_id \in AnalysisIds, completes \in BOOLEAN :
          /\ analysis_id \in DOMAIN controller.analyses
          /\ controller.analyses[analysis_id].starts < MaxStarts
          /\ LET run == controller.analyses[analysis_id].starts + 1
             IN  controller' =
                    [controller EXCEPT
                       !.reports = IF completes
                                   THEN Put(@, analysis_id, [run |-> run])
                                   ELSE @,
                       !.analyses =
                           Put(@, analysis_id,
                               [status |-> IF completes THEN "COMPLETED" ELSE "FAILED",
                                starts |-> run])]
    /\ UNCHANGED <<Pipeline, call, threads, workflow>>

\* CodeReviewController.get_detailed_report
get_detailed_report(reports, analysis_id) ==
    IF analysis_id \notin DOMAIN reports THEN None
    ELSE [analysis_id |-> analysis_id, raw_report |-> reports[analysis_id]]

GetDetailedReport ==
    /\ \E analysis_id \in AnalysisIds :
          call' = [fn |-> "get_detailed_report", analysis_id |-> analysis_id,
                   ret |-> get_detailed_report(controller.reports, analysis_id)]
    /\ UNCHANGED <<Pipeline, threads, Services>>

\* delete_analysis: None for an unknown id, otherwise both entries go
DeleteAnalysis ==
    /\ \E analysis_id \in AnalysisIds :
          /\ analysis_id \in DOMAIN controller.analyses
          /\ controller' =
                [controller EXCEPT
                    !.analyses = Del(@, analysis_id),
                    !.reports = IF analysis_id \in DOMAIN @ THEN Del(@, analysis_id)
                                ELSE @]
    /\ UNCHANGED <<Pipeline, call, threads, workflow>>

NextController ==
    \/ UploadRepository
    \/ StartAnalysis
    \/ GetDetailedReport
    \/ DeleteAnalysis

SpecController == InitGate /\ [][NextController]_vars

(***************************************************************************)
(* GitS3Workflow.process_git_repository (backend/storage)                  *)
(***************************************************************************)
MaxRuns == 3

RepoNames == {"app", "lib"}

\* GitHandler._cleanup_dir: shutil.rmtree(directory, ignore_errors=force);
\* `removed` is whether rmtree managed to delete the tree
cleanup_dir(disk, directory, force, removed) ==
    IF directory \notin disk THEN [ok |-> TRUE, disk |-> disk]
    ELSE IF removed THEN [ok |-> TRUE, disk |-> disk \ {directory}]
    ELSE [ok |-> force, disk |-> disk]

\* GitHandler.clone_repository: the clone directory carries the repository
\* name and a timestamp; nothing is entered in cloned_repos
clone_repository(disk, stamp, repo_name, git_available, valid_url, cloned) ==
    LET clone_dir == [repo |-> repo_name, stamp |-> stamp]
    IN  IF ~git_available
        THEN [result |-> [success |-> FALSE, error |-> "GitPython not installed"],
              disk |-> disk]
        ELSE IF ~valid_url
        THEN [result |-> [success |-> FALSE, error |-> "Invalid repository URL"],
              disk |-> disk]
        ELSE IF cloned
        THEN [result |-> [success |-> TRUE, repo_name |-> repo_name,
                          local_path |-> clone_dir],
              disk |-> disk \cup {clone_dir}]
        ELSE [result |-> [success |-> FALSE, error |-> "Git clone failed"],
              disk |-> cleanup_dir(disk, clone_dir, TRUE, TRUE).disk]

\* GitHandler.cleanup_repository
cleanup_repository(cloned_repos, disk, repo_name, force, removed) ==
    IF repo_name \notin DOMAIN cloned_repos
    THEN [ok |-> FALSE, disk |-> disk, cloned_repos |-> cloned_repos]
    ELSE LET done == cleanup_dir(disk, cloned_repos[repo_name].local_path, force,
                                 removed)
         IN  [ok |-> done.ok, disk |-> done.disk,
              cloned_repos |-> IF done.ok THEN Del(cloned_repos, repo_name)
                               ELSE cloned_repos]

\* GitS3Workflow._stage_cleanup
stage_cleanup(cloned_repos, disk, repo_name, removed) ==
    IF repo_name = ""
    THEN [result |-> [success |-> TRUE, message |-> "No cleanup needed"],
          disk |-> disk, cloned_repos |-> cloned_repos]
    ELSE LET done == cleanup_repository(cloned_repos, disk, repo_name, TRUE, removed)
         IN  [result |-> [success |-> done.ok, repo_name |-> repo_name],
              disk |-> done.disk, cloned_repos |-> done.cloned_repos]

Stages(clone, extraction, upload, cleanup) ==
    [clone |-> clone, extraction |-> extraction, upload |-> upload,
     cleanup |-> cleanup]

\* GitS3Workflow.process_git_repository: clone, extract snippets (optional,
\* its failure is only recorded), upload, cleanup
ProcessGitRepository ==
    /\ workflow.runs < MaxRuns
    /\ \E repo_name \in RepoNames, git_available, valid_url, cloned, extract_snippets,
          extracted, uploaded, removed \in BOOLEAN :
          LET stamp == workflow.runs + 1
              clone == clone_repository(workflow.disk, stamp, repo_name,
                                        git_available, valid_url, cloned)
              extraction == IF extract_snippets THEN [success |-> extracted]
                            ELSE None
              upload == [success |-> uploaded]
              cleanup == stage_cleanup(workflow.cloned_repos, clone.disk,
                                       repo_name, removed)
          IN  workflow' =
                 IF ~clone.result.success
                 THEN [workflow EXCEPT
                          !.runs = stamp, !.disk = clone.disk,
                          !.result = [status |-> "FAILED",
                                      error |-> "Clone stage failed",
                                      stages |-> Stages(clone.result, None, None,
                                                        None)]]
                 ELSE IF ~uploaded
                 THEN [workflow EXCEPT
                          !.runs = stamp, !.disk = clone.disk,
                          !.result = [status |-> "FAILED",
                                      error |-> "Upload stage failed",
                                      stages |-> Stages(clone.result, extraction,
                                                        upload, None)]]
                 ELSE [runs |-> stamp, disk |-> cleanup.disk,
                       cloned_repos |-> cleanup.cloned_repos,
                       result |-> [status |-> "COMPLETED", error |-> "",
                                   stages |-> Stages(clone.result, extraction,
                                                     upload, cleanup.result)]]
    /\ UNCHANGED <<Pipeline, call, threads, controller>>

NextWorkflow == ProcessGitRepository

SpecWorkflow == InitGate /\ [][NextWorkflow]_vars

(***************************************************************************)
(* Properties                                                              *)
(***************************************************************************)
Returned == pc = "returned"

HasEvent(e) == \E i \in 1..Len(events) : events[i] = e

\* the specialists stage of _run_analysis_agents is over
SpecialistsDone == pc \in {"detect", "aggregate", "defer", "decide", "report",
                           "raised"}
                   \/ (Returned /\ feature_output.success)

RoutingRaised(s) ==
    \/ s = "security_analysis" /\ HasEvent("route_for_security_agent!raised")
    \/ s = "logic_analysis" /\ HasEvent("route_for_logic_agent!raised")
    \/ s = "code_quality" /\ HasEvent("route_for_quality_agent!raised")

OutputOf(s, ok) ==
    \E i \in 1..Len(agent_outputs) :
        agent_outputs[i].agent_type = s /\ agent_outputs[i].success = ok

\* the specialist was run and did not complete successfully
NotCompleted(s) == SpecialistsDone /\ ~OutputOf(s, TRUE)

\* C1: whenever the security specialist does not complete successfully
\* (failure output, or its routing/analysis call raised), the FinalReport
\* that analyze_repository returns has deferred = true.
C1_SecurityFailureDefers ==
    (Returned /\ NotCompleted("security_analysis")) => report.deferred

CallIsGate == call.fn \in {"should_defer", "evaluate"}

\* C2: should_defer returns defer = true whenever the failure summary marks
\* the security agent as failed (which get_failures does for every security
\* output with success = false), whatever the confidence, conflicts and risk.
C2_SecurityFailedAlwaysDefers ==
    /\ (CallIsGate /\ call.failures.security_failed) => call.ret.defer
    /\ (call.fn = "evaluate"
        /\ \E i \in 1..Len(call.outputs) :
              /\ call.outputs[i].agent_type = "security_analysis"
              /\ ~call.outputs[i].success)
       => (call.failures.security_failed /\ call.ret.defer)

C2_Witness ==
    /\ call.fn = "should_defer"
    /\ call.failures.security_failed
    /\ call.overall_confidence = Pct(100)
    /\ call.conflicts = <<>>
    /\ call.max_risk = "none"
    /\ call.ret.defer

\* C3: should_defer returns defer = true whenever the conflicts list is
\* non-empty, for every confidence, failure summary and max risk.
C3_ConflictsAlwaysDefer ==
    (CallIsGate /\ call.conflicts # <<>>) => call.ret.defer

C3_Witness ==
    /\ call.fn = "should_defer"
    /\ call.conflicts # <<>>
    /\ call.overall_confidence = Pct(100)
    /\ ~call.failures.security_failed
    /\ call.max_risk = "none"
    /\ call.ret.defer

Rule2(c) == RLess(c.overall_confidence, Rat(70, 100))
Rule3(c) == Len(c.conflicts) > 0
Rule4(c) == c.failures.security_failed
Rule5(c) == c.max_risk = "critical" /\ RLess(c.overall_confidence, Rat(80, 100))

\* C4: with a positive confidence (rule 1 aside), the gate returns the reason
\* of the first of rule 2 (confidence below 0.70), rule 3 (conflicts), rule 4
\* (security failed), rule 5 (CRITICAL below 0.80) that holds, and
\* (false, "") exactly when none of them holds.
C4_FirstRuleWins ==
    CallIsGate =>
        /\ (RLess(RZero, call.overall_confidence) /\ Rule2(call))
              => call.ret = Gate(TRUE, REASON_THRESHOLD)
        /\ (~Rule2(call) /\ Rule3(call))
              => call.ret = Gate(TRUE, REASON_CONFLICTS)
        /\ (~Rule2(call) /\ ~Rule3(call) /\ Rule4(call))
              => call.ret = Gate(TRUE, REASON_SECURITY)
        /\ (~Rule2(call) /\ ~Rule3(call) /\ ~Rule4(call) /\ Rule5(call))
              => call.ret = Gate(TRUE, REASON_CRITICAL)
        /\ (call.ret = Gate(FALSE, REASON_NONE))
              <=> ~(Rule2(call) \/ Rule3(call) \/ Rule4(call) \/ Rule5(call))
        /\ call.ret.defer <=> call.ret.reason.text # ""

C4_Witness ==
    /\ call.fn = "should_defer"
    /\ call.overall_confidence = Pct(65)
    /\ call.conflicts # <<>>
    /\ call.failures.security_failed
    /\ call.max_risk = "critical"
    /\ call.ret = Gate(TRUE, REASON_THRESHOLD)

\* C5: the 'No successful agent outputs received' reason is given if and only
\* if no output of the run has success = true.
C5_NoSuccessReasonIffNoSuccess ==
    call.fn = "evaluate" =>
        ((call.ret.reason = REASON_NO_SUCCESS)
            <=> (\A i \in 1..Len(call.outputs) : ~call.outputs[i].success))

\* C6: with no conflicts, the security agent not failed and confidence at or
\* above 0.70, should_defer defers if and only if max risk is CRITICAL and
\* the confidence is below 0.80.
C6_CriticalBelowStrictThreshold ==
    (/\ CallIsGate
     /\ call.conflicts = <<>>
     /\ ~call.failures.security_failed
     /\ RLeq(Rat(70, 100), call.overall_confidence))
    => (call.ret.defer
          <=> (call.max_risk = "critical"
               /\ RLess(call.overall_confidence, Rat(80, 100))))

C6_Witness ==
    /\ call.fn = "should_defer"
    /\ call.conflicts = <<>>
    /\ ~call.failures.security_failed
    /\ call.overall_confidence = Pct(75)
    /\ call.max_risk = "critical"
    /\ call.ret = Gate(TRUE, REASON_CRITICAL)

RECURSIVE SumOver(_, _)
SumOver(f, I) ==
    IF I = {} THEN 0
    ELSE LET i == CHOOSE j \in I : TRUE IN f[i] + SumOver(f, I \ {i})

\* C7: aggregate_confidence is sum(confidence * reliability) / sum(reliability)
\* over the outputs with success = true only: 0.0 when there is none, c for a
\* single success of confidence c, and unchanged by removing failed outputs.
C7_AggregateOverSuccessesOnly ==
    call.fn = "evaluate" =>
        LET outs == call.outputs
            S == {i \in 1..Len(outs) : outs[i].success}
            conf == call.overall_confidence
        IN  /\ S = {} => REq(conf, RZero)
            /\ S # {} =>
                  \* all reliabilities are 1.0: the mean of the successes, in percent
                  conf.num * 100 * Cardinality(S)
                      = conf.den * SumOver([i \in 1..Len(outs) |-> outs[i].confidence], S)
            /\ (Len(outs) = 1 /\ S # {}) => REq(conf, Pct(outs[1].confidence))
            /\ REq(conf, aggregate_confidence(SelectSeq(outs, LAMBDA o : o.success)))

C7_Witness ==
    /\ call.fn = "evaluate"
    /\ Len(call.outputs) = 2
    /\ ~call.outputs[1].success /\ call.outputs[1].confidence = 90
    /\ call.outputs[2].success /\ call.outputs[2].confidence = 65
    /\ REq(call.overall_confidence, Pct(65))

\* C8: the failure of a specialist, in its routing step or in its analyze
\* call, is recorded in the run's outputs as an AgentOutput of that specialist
\* with success = false.
C8_SpecialistFailureRecorded ==
    \A s \in Specialists : NotCompleted(s) => OutputOf(s, FALSE)

NonEmptyText(parts) == \E i \in 1..Len(parts) : parts[i] # ""

\* C9: if feature extraction fails, analyze_repository calls no specialist, no
\* conflict detection and no decision step, and returns a FinalReport with
\* deferred = true and a non-empty deferral reason.
C9_FeatureFailureReport ==
    (feature_output # None /\ ~feature_output.success) =>
        /\ Returned
        /\ report # None
        /\ report.deferred
        /\ NonEmptyText(report.deferral_reason)
        /\ events = <<"read_code_snapshot", "feature_agent.analyze">>
        /\ agent_outputs = <<>>
        /\ decision_output = None

C9_Witness ==
    /\ feature_output # None
    /\ ~feature_output.success
    /\ feature_output.error_message = ""
    /\ Returned
    /\ report.deferred

\* C10: when the blob store is unreachable (client initialisation or snapshot
\* read failed), analyze_repository returns no FinalReport for that run.
C10_UnreachableBlobStoreNoReport ==
    blob_unreachable => (~Returned /\ report = None)

\* the one schema of generate: a map with a 'findings' list and a
\* 'confidence' number in [0, 1]
IsAnalysis(v) ==
    /\ v.type = "object"
    /\ {"findings", "confidence"} \subseteq DOMAIN v.members
    /\ v.members["findings"].type = "array"
    /\ v.members["confidence"].type = "number"
    /\ v.members["confidence"].pct \in 0..100

\* the reply of the model is unparseable, or parseable but not of the schema
Malformed(text) ==
    \/ text.body.kind # "json"
    \/ ~IsAnalysis(text.body.value)

\* C11: generate always returns a map with a 'findings' list and a
\* 'confidence' number in [0, 1]; when the reply is malformed, the quota is
\* exhausted or the call raises, the result is the pattern-matched fallback
\* and never an error object.
C11_GenerateOneSchema ==
    call.fn = "generate" =>
        /\ IsAnalysis(call.ret)
        /\ (call.consulted
            /\ (call.api.raised # "none" \/ Malformed(call.api.text)))
           => (call.ret = call.fallback /\ error_in(call.ret) = "no")

\* a conflict built by _detect_risk_disagreements (its details name agents)
IsRiskConflict(c) == "agent" \in DOMAIN c.conflicting_findings[1]

RiskConflicts(ret) == {k \in 1..Len(ret) : IsRiskConflict(ret[k])}

RankDiff(o1, o2) == Abs(severity[o1.risk_level] - severity[o2.risk_level])

\* the (security, logic) pairs of a list whose ranks differ by at least 2
RiskPairs(outs) ==
    {p \in (1..Len(outs)) \X (1..Len(outs)) :
        /\ outs[p[1]].agent_type = "security_analysis"
        /\ outs[p[2]].agent_type = "logic_analysis"
        /\ RankDiff(outs[p[1]], outs[p[2]]) >= 2}

\* C12: detect_conflicts emits a risk-disagreement conflict for a (security,
\* logic) pair exactly when their risk ranks differ by 2 or more, with level
\* difference/4; CRITICAL against NONE with no contradictory findings gives
\* exactly one conflict of level 1.0; a difference of 0 or 1 gives none.
C12_RiskDisagreement ==
    call.fn = "detect_conflicts" =>
        LET outs == call.outputs
            ret == call.ret
        IN  /\ Cardinality(RiskConflicts(ret)) = Cardinality(RiskPairs(outs))
            /\ \A p \in RiskPairs(outs) :
                  \E k \in RiskConflicts(ret) :
                      /\ REq(ret[k].disagreement_level,
                             Rat(RankDiff(outs[p[1]], outs[p[2]]), 4))
                      /\ ret[k].conflicting_findings[1].risk_level
                            = outs[p[1]].risk_level
                      /\ ret[k].conflicting_findings[2].risk_level
                            = outs[p[2]].risk_level
            /\ (/\ Len(outs) = 2
                /\ {outs[1].agent_type, outs[2].agent_type}
                      = {"security_analysis", "logic_analysis"}
                /\ {outs[1].risk_level, outs[2].risk_level} = {"critical", "none"}
                /\ check_contradiction(outs[1].findings, outs[2].findings)
                      = NoContradiction)
               => (Len(ret) = 1 /\ REq(ret[1].disagreement_level, Rat(1, 1)))

C12_Witness ==
    /\ call.fn = "detect_conflicts"
    /\ Len(call.outputs) = 2
    /\ call.outputs[1].agent_type = "security_analysis"
    /\ call.outputs[1].risk_level = "critical"
    /\ call.outputs[2].agent_type = "logic_analysis"
    /\ call.outputs[2].risk_level = "none"
    /\ Len(call.ret) = 1
    /\ REq(call.ret[1].disagreement_level, Rat(1, 1))

\* the pairs i < j of a list that are of different agent kinds and whose
\* findings contradict each other
FindingPairs(outs) ==
    {p \in (1..Len(outs)) \X (1..Len(outs)) :
        /\ p[1] < p[2]
        /\ outs[p[1]].agent_type # outs[p[2]].agent_type
        /\ check_contradiction(outs[p[1]].findings, outs[p[2]].findings)
              # NoContradiction}

\* C13: every pair of outputs of different agent kinds gives at most one
\* finding-contradiction conflict (level 0.8), a same-kind pair gives none;
\* the list returned is all risk-disagreement conflicts followed by all
\* finding-contradiction conflicts, nothing merged or removed.
C13_ConflictListLayout ==
    call.fn = "detect_conflicts" =>
        LET outs == call.outputs
            ret == call.ret
            nrisk == Cardinality(RiskPairs(outs))
            nfind == Cardinality(FindingPairs(outs))
        IN  /\ Len(ret) = nrisk + nfind
            /\ \A k \in 1..Len(ret) : IsRiskConflict(ret[k]) <=> k <= nrisk
            /\ \A k \in (nrisk + 1)..Len(ret) :
                  /\ REq(ret[k].disagreement_level, Rat(8, 10))
                  /\ ret[k].agents_involved[1] # ret[k].agents_involved[2]
            /\ \A p \in FindingPairs(outs) :
                  Cardinality({k \in (nrisk + 1)..Len(ret) :
                      /\ ret[k].agents_involved
                            = <<outs[p[1]].agent_type, outs[p[2]].agent_type>>
                      /\ ret[k].conflicting_findings[1]
                            \in {outs[p[1]].findings[i] :
                                    i \in 1..Len(outs[p[1]].findings)}
                      /\ ret[k].conflicting_findings[2]
                            \in {outs[p[2]].findings[i] :
                                    i \in 1..Len(outs[p[2]].findings)}}) >= 1

\* one security/logic pair contributes two conflicts
C13_Witness ==
    /\ call.fn = "detect_conflicts"
    /\ Len(call.outputs) = 2
    /\ call.outputs[1].agent_type = "security_analysis"
    /\ call.outputs[2].agent_type = "logic_analysis"
    /\ Len(call.ret) = 2
    /\ IsRiskConflict(call.ret[1])
    /\ ~IsRiskConflict(call.ret[2])
    /\ REq(call.ret[2].disagreement_level, Rat(8, 10))

\* the highest risk among the successful outputs of a list
HighestSuccessfulRisk(outs) ==
    MaxRisk({outs[i].risk_level : i \in {j \in 1..Len(outs) : outs[j].success}})

ActionByRisk(r) ==
    IF r = "critical" THEN "manual_review_required"
    ELSE IF r = "high" THEN "review_required"
    ELSE IF r = "medium" THEN "proceed_with_caution"
    ELSE "acceptable"

\* C14: the action recommend_action returns depends only on the highest risk
\* among the successful outputs (CRITICAL, HIGH, MEDIUM, anything else give
\* manual_review_required, review_required, proceed_with_caution,
\* acceptable), for every aggregated confidence and every conflict list.
C14_ActionByHighestRisk ==
    call.fn = "recommend_action" =>
        call.ret.metadata.recommendation
            = ActionByRisk(HighestSuccessfulRisk(call.all_outputs))

RECURSIVE SumLevels(_)
SumLevels(cl) ==
    IF cl = <<>> THEN RZero
    ELSE RAdd(RMul(Rat(2, 10), Head(cl).disagreement_level), SumLevels(Tail(cl)))

\* C15: decision_confidence = max(0, aggregated_confidence - min(0.5, sum
\* over the conflicts of 0.2 * disagreement_level)); one conflict of level
\* 0.5 lowers the confidence by 0.1, one of level 1.0 by 0.2.
C15_PenaltyByDisagreementLevel ==
    call.fn = "recommend_action" =>
        REq(call.ret.confidence,
            RMax(RZero,
                 RSub(call.overall_confidence,
                      RMin(Rat(5, 10), SumLevels(call.conflicts)))))

CallIsRouting == call.fn \in {"route_for_security_agent", "route_for_logic_agent"}

\* C16: for any code files and any list of pre-extracted snippets,
\* route_for_security_agent and route_for_logic_agent return at most 5
\* snippets, and the content of each has at most 500 characters.
C16_RoutingBounds ==
    CallIsRouting =>
        /\ Len(call.ret) <= 5
        /\ \A i \in 1..Len(call.ret) : call.ret[i].content.len <= 500

\* six over-long pre-extracted snippets come back as five of 500 characters
C16_Witness ==
    /\ call.fn = "route_for_security_agent"
    /\ call.reader
    /\ Len(call.fetched) = 6
    /\ \A i \in 1..6 : call.fetched[i].content.len = 600
    /\ Len(call.ret) = 5
    /\ \A i \in 1..5 : call.ret[i].content.len = 500

\* seven matches of a scan come back as five snippets
C16_WitnessScan ==
    /\ call.fn = "route_for_logic_agent"
    /\ ~call.reader
    /\ \E k \in 1..Len(call.code_files) : call.code_files[k].filename = "loops.py"
    /\ Len(call.ret) = 5

\* the snippet comes from a file of code_files that contains a security
\* keyword
FromSecurityFile(snippet, files) ==
    \E k \in 1..Len(files) :
        /\ files[k].filename = snippet.filename
        /\ is_security_file(files[k].lines)

\* C17: no snippet returned by route_for_logic_agent comes from a file whose
\* content contains a security keyword, whether the snippets were scanned
\* from the code files or fetched pre-extracted from the blob store.
C17_LogicSnippetsAvoidSecurityFiles ==
    call.fn = "route_for_logic_agent" =>
        \A i \in 1..Len(call.ret) : ~FromSecurityFile(call.ret[i], call.code_files)

RoutingEvents ==
    {"route_for_security_agent", "route_for_logic_agent", "route_for_quality_agent",
     "route_for_security_agent!raised", "route_for_logic_agent!raised",
     "route_for_quality_agent!raised"}
SpecialistEvents ==
    {"security_agent.analyze", "logic_agent.analyze", "quality_agent.analyze"}

\* in the calls made so far, no call of `later` precedes a call of `earlier`
InOrder(earlier, later) ==
    \A i, j \in 1..Len(events) :
        (events[i] \in later /\ events[j] \in earlier) => j < i

RunOver == pc \in {"returned", "raised"}

\* C18: the stages of analyze_repository occur strictly in the order feature
\* extraction, routing for all specialists, all specialist runs, conflict
\* detection, decision, report: no specialist is invoked before routing has
\* completed for all specialists, conflict detection starts after every
\* specialist, decision after conflict detection, and exactly one
\* FinalReport is constructed, at the end.
C18_StagesInOrder ==
    /\ InOrder({"feature_agent.analyze"}, RoutingEvents)
    /\ InOrder(RoutingEvents, SpecialistEvents)
    /\ InOrder(SpecialistEvents, {"detect_conflicts"})
    /\ InOrder({"detect_conflicts"}, {"recommend_action"})
    /\ InOrder({"recommend_action"}, {"FinalReport"})
    /\ (report # None) <=> RunOver

Count(s, v) == Cardinality({i \in 1..Len(s) : s[i] = v})

\* complexity >= 4, or a recursive function, or an infinite loop
Qualifies(b) ==
    \/ b.complexity >= 4
    \/ (b.type = "function" /\ b.metadata.is_recursive)
    \/ (b.type = "loop" /\ b.metadata.is_infinite)

\* C19: select returns at most 5 blocks of its input, each with complexity
\* >= 4 or a recursive function or an infinite loop, in non-increasing
\* order of complexity, and no qualifying block that is left out has a
\* higher complexity than a returned one.
C19_SelectTopFive ==
    call.fn = "select" =>
        LET blocks == call.blocks
            ret == call.ret
        IN  /\ Len(ret) <= 5
            /\ \A i \in 1..Len(ret) :
                  /\ Qualifies(ret[i])
                  /\ Count(ret, ret[i]) <= Count(blocks, ret[i])
            /\ \A i, j \in 1..Len(ret) :
                  i < j => ret[i].complexity >= ret[j].complexity
            /\ \A k \in 1..Len(blocks) :
                  (Qualifies(blocks[k])
                   /\ Count(ret, blocks[k]) < Count(blocks, blocks[k]))
                  => \A i \in 1..Len(ret) :
                        blocks[k].complexity <= ret[i].complexity

\* six qualifying blocks, the least complex one first: it is the one left out
C19_Witness ==
    /\ call.fn = "select"
    /\ Len(call.blocks) = 6
    /\ \A k \in 1..6 : Qualifies(call.blocks[k])
    /\ call.blocks[1].complexity = 1
    /\ \A k \in 2..6 : call.blocks[k].complexity >= 4
    /\ Len(call.ret) = 5
    /\ \A i \in 1..5 : call.ret[i].complexity >= 4

\* every call of record_agent_performance has returned
AllRecorded == \A t \in Threads : threads[t].pc = "done"

\* C20: when record_agent_performance is called by overlapping runs for the
\* same agent kind, the updates are serialised per key: once the calls have
\* returned, no recorded sample is missing from the history of its key (the
\* samples recorded last are never the ones truncated), and that history
\* holds at most 100 entries.
C20_NoSampleLost ==
    AllRecorded =>
        \A t \in Threads :
            LET list == agent_history[threads[t].agent_name]
            IN  /\ Len(list) <= 100
                /\ \E i \in 1..Len(list) : list[i] = threads[t].confidence

\* C21: recording agent performance never changes what aggregate_confidence
\* returns for a given list of outputs: the aggregation does not read the
\* history.
C21_HistoryNotRead ==
    call.fn = "history_aggregate_confidence" =>
        RNorm(call.ret) = RNorm(call.fresh)

BranchConstructs ==
    {"If", "For", "AsyncFor", "While", "Try", "match_case", "IfExp", "BoolOp",
     "if_statement", "for_statement", "enhanced_for_statement", "while_statement",
     "do_statement", "try_statement", "case_clause", "ternary_expression"}
NestedBodies ==
    {"FunctionDef", "AsyncFunctionDef", "ClassDef"} \cup java_declarations
    \cup javascript_functions

IsBranch(node) ==
    \/ node.type \in BranchConstructs
    \/ node.type \in {"binary_expression", "logical_expression"}
       /\ HasChild(node, {"&&", "||"})

\* branch constructs inside the node's own body at any depth, nested function
\* and class bodies left out
RECURSIVE OwnBranches(_)
OwnBranches(node) ==
    Total([i \in 1..Len(node.children) |->
              IF node.children[i].type \in NestedBodies THEN 0
              ELSE (IF IsBranch(node.children[i]) THEN 1 ELSE 0)
                   + OwnBranches(node.children[i])])

\* C22: the complexity of an extracted function or method is 1 plus the number
\* of branch constructs in its own body at any depth, those inside nested
\* function or class bodies not counted.
C22_ComplexityCountsOwnBranches ==
    call.fn = "_compute_complexity" => call.ret = 1 + OwnBranches(call.node)

IsDeclaration(line) == line.kind \in {"def", "class"}

\* the declarations on the 20 lines before line_num, lines counted from 1
DeclarationsAbove(lines, line_num) ==
    {j \in 1..Len(lines) :
        /\ j < line_num
        /\ j >= line_num - context_window
        /\ IsDeclaration(lines[j])}

NearestAbove(lines, line_num) ==
    IF DeclarationsAbove(lines, line_num) = {} THEN global_scope
    ELSE LET j == CHOOSE x \in DeclarationsAbove(lines, line_num) :
                     \A y \in DeclarationsAbove(lines, line_num) : y <= x
         IN  Context(IF lines[j].kind = "def" THEN "function" ELSE "class",
                     lines[j].name)

\* C23: _find_function_context reports the declaration nearest above the
\* triggering line among the def and class lines of the 20 preceding lines,
\* and 'global scope' when there is none.
C23_NearestDeclarationAbove ==
    call.fn = "_find_function_context" =>
        call.ret = NearestAbove(call.lines, call.line_num)

\* where the triggering line begins inside the untruncated content
TargetOffset(lines, start_line, target_line) ==
    IF start_line < target_line
    THEN JoinedLen(lines, start_line - 1, target_line - 1) + 1
    ELSE 0

\* C28: the content returned by _extract_bounded_snippet, after truncation to
\* max_chars, still holds at least the beginning of the triggering line.
C28_TargetLineKept ==
    call.fn = "_extract_bounded_snippet" =>
        TargetOffset(call.lines, call.ret.start_line, call.target_line)
            < call.ret.content.len

\* C26: detect_conflicts compares successful outputs only: every conflict it
\* returns is between two outputs of the list that both succeeded, so a
\* failed security output next to a HIGH-risk logic output gives none.
C26_FailedOutputsTakeNoPart ==
    call.fn = "detect_conflicts" =>
        \A k \in 1..Len(call.ret) :
            \E i, j \in 1..Len(call.outputs) :
                /\ i # j
                /\ call.outputs[i].success
                /\ call.outputs[j].success
                /\ call.outputs[i].agent_type = call.ret[k].agents_involved[1]
                /\ call.outputs[j].agent_type = call.ret[k].agents_involved[2]

UsesOpposites(f1, f2) ==
    \E k \in 1..Len(contradictory_pairs) :
        \/ contradictory_pairs[k][1] \in f1.description
           /\ contradictory_pairs[k][2] \in f2.description
        \/ contradictory_pairs[k][2] \in f1.description
           /\ contradictory_pairs[k][1] \in f2.description

\* C27: a finding-contradiction conflict is emitted only when one description
\* uses one word of an antonym pair and the other uses the opposite word; two
\* descriptions that use the same word (both 'invalid') never give a conflict.
C27_OppositeWordsOnly ==
    call.fn = "detect_conflicts" =>
        \A k \in 1..Len(call.ret) :
            ~IsRiskConflict(call.ret[k]) =>
                UsesOpposites(call.ret[k].conflicting_findings[1],
                              call.ret[k].conflicting_findings[2])

NoError == [raised |-> FALSE, msg |-> ""]
NoReply == [findings |-> <<>>, confidence |-> 0]

\* what the three specialists return, all succeeding, when routing selected
\* no security and no logic snippet
NoSnippetOutputs ==
    <<security_analyze(0, NoReply, NoError), logic_analyze(0, NoReply, NoError),
      quality_analyze(NoError)>>

\* C24: for a snapshot from which routing selects no security and no logic
\* snippet, with the security, logic and quality specialists all succeeding,
\* analyze_repository returns a report with deferred = false.
C24_NothingRoutedNotDeferred ==
    (Returned /\ agent_outputs = NoSnippetOutputs) => ~report.deferred

StatusOf(analysis_id) ==
    IF analysis_id \in DOMAIN controller.analyses
    THEN controller.analyses[analysis_id].status
    ELSE "none"

\* C29: after any sequence of upload, start_analysis and delete_analysis
\* calls, a report is stored, and get_detailed_report returns one, only for
\* an analysis whose status is COMPLETED: none for a FAILED or IN_PROGRESS
\* analysis, and a deleted analysis has neither status nor report.
C29_ReportOnlyWhileCompleted ==
    /\ \A analysis_id \in DOMAIN controller.reports :
          StatusOf(analysis_id) = "COMPLETED"
    /\ (call.fn = "get_detailed_report" /\ call.ret # None)
          => StatusOf(call.analysis_id) = "COMPLETED"

\* C30: after process_git_repository returns with status COMPLETED, the local
\* clone it created has been removed and the recorded cleanup stage has
\* success = true.
C30_CloneRemovedWhenCompleted ==
    (workflow.result # None /\ workflow.result.status = "COMPLETED") =>
        /\ workflow.result.stages.cleanup.success
        /\ workflow.result.stages.clone.local_path \notin workflow.disk
====
